---- MODULE Spec2Model ----
(***************************************************************************)
(* Model of media-organizer: scanning, fingerprinting, planning, the       *)
(* interactive override handler, execution and empty-directory pruning.    *)
(*                                                                         *)
(* A path is a sequence of segment names (strings); the file system is a   *)
(* function from file paths to [c: content id, d: date] plus a set of      *)
(* directory paths.                                                        *)
(***************************************************************************)
EXTENDS Integers, Sequences, FiniteSets, TLC

(***************************************************************************)
(* Bounds of the model.                                                    *)
(***************************************************************************)
MaxFiles == 2
MaxContent == 2
MaxEvents == 4
MaxCand == 2

(***************************************************************************)
(* Strings.                                                                *)
(***************************************************************************)
CharAt(s, i) == SubSeq(s, i, i)

StartsWith(s, pre) == Len(s) >= Len(pre) /\ SubSeq(s, 1, Len(pre)) = pre

UpperAlpha == "ABCDEFGHIJKLMNOPQRSTUVWXYZ"
LowerAlpha == "abcdefghijklmnopqrstuvwxyz"

LowerTable ==
  [c \in {CharAt(UpperAlpha, i) : i \in 1..26} |->
     CharAt(LowerAlpha, CHOOSE i \in 1..26 : CharAt(UpperAlpha, i) = c)]

LowerChar(c) == IF c \in DOMAIN LowerTable THEN LowerTable[c] ELSE c

RECURSIVE toLowerCase(_)
toLowerCase(s) ==
  IF Len(s) = 0 THEN ""
  ELSE LowerChar(CharAt(s, 1)) \o toLowerCase(SubSeq(s, 2, Len(s)))

IsDigit(c) == \E i \in 1..10 : CharAt("0123456789", i) = c

AllDigits(s, from, to) == \A i \in from..to : IsDigit(CharAt(s, i))

\* /^\d{4}$/
IsYearPart(s) == Len(s) = 4 /\ AllDigits(s, 1, 4)

\* /^\d{4}-\d{2}-\d{2}$/
IsDayPart(s) ==
  /\ Len(s) = 10
  /\ AllDigits(s, 1, 4) /\ CharAt(s, 5) = "-"
  /\ AllDigits(s, 6, 7) /\ CharAt(s, 8) = "-"
  /\ AllDigits(s, 9, 10)

\* position of the last "." of s, 0 when there is none
LastDot(s) ==
  IF \E i \in 1..Len(s) : CharAt(s, i) = "."
  THEN CHOOSE i \in 1..Len(s) :
         CharAt(s, i) = "." /\ \A j \in (i+1)..Len(s) : CharAt(s, j) # "."
  ELSE 0

\* path.extname: from the last "." of the name, "" for no dot or a leading dot
extname(name) ==
  LET k == LastDot(name)
  IN IF k <= 1 \/ name = ".." THEN "" ELSE SubSeq(name, k, Len(name))

\* splitNameAndExt
splitNameAndExt(filename) ==
  LET ext == extname(filename)
  IN [base |-> IF ext # "" THEN SubSeq(filename, 1, Len(filename) - Len(ext))
               ELSE filename,
      ext |-> ext]

\* faulty variant of padStart2: the number is not padded
padNone(n) == ToString(n)

\* String(n).padStart(2, '0')
padStart2(n) == IF n < 10 THEN "0" \o ToString(n) ELSE ToString(n)

(***************************************************************************)
(* constants.js                                                            *)
(***************************************************************************)
IMAGE_EXTENSIONS ==
  {".jpg", ".jpeg", ".png", ".gif", ".bmp", ".tiff", ".tif", ".heic", ".heif", ".webp"}
RAW_EXTENSIONS ==
  {".cr2", ".cr3", ".crw", ".raf", ".raw", ".dng", ".nef", ".arw", ".orf", ".rw2"}
VIDEO_EXTENSIONS ==
  {".mp4", ".mov", ".avi", ".mkv", ".m4v", ".wmv", ".flv", ".webm"}

IGNORABLE_FILENAMES == {".DS_Store", "Thumbs.db", ".localized"}

isIgnorableFile(name) == name \in IGNORABLE_FILENAMES \/ StartsWith(name, "._")

\* faulty variant of IsMediaName: the extension is compared as it is written
IsMediaNameCased(name) ==
  extname(name) \in (IMAGE_EXTENSIONS \cup RAW_EXTENSIONS \cup VIDEO_EXTENSIONS)

\* MEDIA_EXTENSIONS.has(extname(name).toLowerCase())
IsMediaName(name) ==
  toLowerCase(extname(name)) \in (IMAGE_EXTENSIONS \cup RAW_EXTENSIONS \cup VIDEO_EXTENSIONS)

(***************************************************************************)
(* Paths.                                                                  *)
(***************************************************************************)
\* path.join(dir, name) for a single segment; an empty segment adds nothing
join(dir, name) == IF name = "" THEN dir ELSE Append(dir, name)

\* path.dirname; the top directory is its own parent
dirname(p) == IF Len(p) = 0 THEN p ELSE SubSeq(p, 1, Len(p) - 1)

\* path.basename
basename(p) == IF Len(p) = 0 THEN "" ELSE p[Len(p)]

IsPrefix(a, b) == Len(a) <= Len(b) /\ SubSeq(b, 1, Len(a)) = a

\* the segments of path.relative(from, to) when to lies at or below from
RelParts(from, to) == SubSeq(to, Len(from) + 1, Len(to))

\* path.relative(from, to).startsWith('..'): to lies outside from, or the
\* first segment below from itself starts with two dots
RelStartsDotDot(from, to) ==
  IF IsPrefix(from, to)
  THEN Len(to) > Len(from) /\ StartsWith(to[Len(from) + 1], "..")
  ELSE TRUE

\* the length of the path as a string: "/" and the name, for every segment
RECURSIVE PathLen(_)
PathLen(p) == IF Len(p) = 0 THEN 0 ELSE 1 + Len(p[Len(p)]) + PathLen(dirname(p))

(***************************************************************************)
(* Sequences used as insertion-ordered sets (JavaScript Set, Array).       *)
(***************************************************************************)
Range(s) == {s[i] : i \in 1..Len(s)}

\* Set.add: keeps the first insertion
SetAdd(s, x) == IF x \in Range(s) THEN s ELSE Append(s, x)

RECURSIVE SetAddAll(_, _)
SetAddAll(s, xs) == IF xs = <<>> THEN s ELSE SetAddAll(SetAdd(s, Head(xs)), Tail(xs))

\* the elements of a set in a fixed order
RECURSIVE SeqOfSet(_)
SeqOfSet(S) ==
  IF S = {} THEN <<>>
  ELSE LET x == CHOOSE y \in S : TRUE IN <<x>> \o SeqOfSet(S \ {x})

\* Array.prototype.sort((a, b) => b.length - a.length): stable, longest first
RECURSIVE InsertByLength(_, _)
InsertByLength(sorted, p) ==
  IF sorted = <<>> THEN <<p>>
  ELSE IF PathLen(Head(sorted)) >= PathLen(p)
       THEN <<Head(sorted)>> \o InsertByLength(Tail(sorted), p)
       ELSE <<p>> \o sorted

\* faulty variant of SortByLengthDesc: the list is left as it was filled
SortKeepsOrder(s) == s

RECURSIVE SortByLengthDesc(_)
\* sort((a, b) => b.length - a.length): longest path first, equal lengths in
\* the order they had
SortByLengthDesc(s) ==
  IF s = <<>> THEN <<>>
  ELSE InsertByLength(SortByLengthDesc(SubSeq(s, 1, Len(s) - 1)), s[Len(s)])

(***************************************************************************)
(* The file system: F maps the path of every file to [c, d] (content id,   *)
(* date), D is the set of directory paths.                                 *)
(***************************************************************************)
Root == <<"r">>
DirA == <<"r", "a">>
DirB == <<"r", "a", "b">>
DirYear == <<"r", "2023">>
DirDay == <<"r", "2023", "2023-06-01">>
Dir999 == <<"r", "999", "999-06-01">>
DirC == <<"r", "a", "cc">>
Outside == <<"o">>
Top == <<>>

\* the dates files can carry: [y, m, d]
DateOf(k) ==
  CASE k = 1 -> [y |-> 2023, m |-> 6, d |-> 1]
    [] k = 2 -> [y |-> 2023, m |-> 11, d |-> 20]
    [] k = 3 -> [y |-> 2022, m |-> 1, d |-> 15]
    [] k = 5 -> [y |-> 999, m |-> 6, d |-> 1]
    [] OTHER -> [y |-> 2024, m |-> 1, d |-> 5]

\* the null that getExifDate returns when no capture date is recoverable
NoDate == [y |-> 0, m |-> 0, d |-> 0]

\* new Date(0): the birthtime that stat reports where the file system keeps
\* no creation time
Epoch == [y |-> 1970, m |-> 1, d |-> 1]

\* what getExifDate and stat report for a file whose d field is k:
\*   1  no capture date, created and modified on 2023-06-01
\*   2  capture date 2023-11-20, created and modified on 2024-01-05
\*   3  no capture date, no creation time, modified on 2022-01-15
\*   4  capture date "0999:06:01" (new Date("0999", 5, "01", ...) is in the
\*      year 999), created and modified on 2024-01-05
\*   other  no capture date, created on 2024-01-05, modified on 2022-01-15
Meta(k) ==
  CASE k = 1 -> [exif |-> NoDate, birthtime |-> DateOf(1), mtime |-> DateOf(1)]
    [] k = 2 -> [exif |-> DateOf(2), birthtime |-> DateOf(4), mtime |-> DateOf(4)]
    [] k = 3 -> [exif |-> NoDate, birthtime |-> Epoch, mtime |-> DateOf(3)]
    [] k = 4 -> [exif |-> DateOf(5), birthtime |-> DateOf(4), mtime |-> DateOf(4)]
    [] OTHER -> [exif |-> NoDate, birthtime |-> DateOf(4), mtime |-> DateOf(3)]

\* the d fields the files of a planning run can carry
MetaIds == {1, 2, 3, 4}

\* stats.size of a file with content c: contents 1 and 2 have the same size
Size(c) == (c + 1) \div 2

\* the md5 digest of content c; digests of different contents differ
MD5(c) == c

pathExistsIn(F, D, p) == p \in DOMAIN F \/ p \in D

\* fs.readdir(dir): the names of the entries of dir
Readdir(F, D, dir) ==
  SeqOfSet({ p[Len(p)] : p \in { q \in (DOMAIN F) \cup D :
                                   Len(q) = Len(dir) + 1 /\ dirname(q) = dir } })

\* rm of one file
RemoveFile(F, p) == [q \in (DOMAIN F) \ {p} |-> F[q]]

\* rm(dir, {recursive: true, force: true})
RemoveTreeFiles(F, dir) == [q \in { x \in DOMAIN F : ~IsPrefix(dir, x) } |-> F[q]]
RemoveTreeDirs(D, dir) == { x \in D : ~IsPrefix(dir, x) }

\* mkdir(dir, {recursive: true}): dir and every missing ancestor
Ancestors(dir) == { SubSeq(dir, 1, k) : k \in 0..Len(dir) }
MkdirFails(F, dir) == \E a \in Ancestors(dir) : a \in DOMAIN F
Mkdir(D, dir) == D \cup Ancestors(dir)

\* rename(src, dst) fails for a missing source, a directory at dst, or a
\* missing or non-directory parent of dst
RenameFails(F, D, src, dst) ==
  \/ src \notin DOMAIN F
  \/ dst \in D
  \/ dirname(dst) \notin D

Rename(F, src, dst) ==
  IF src = dst THEN F
  ELSE [q \in ((DOMAIN F) \ {src}) \cup {dst} |-> IF q = dst THEN F[src] ELSE F[q]]

(***************************************************************************)
(* fileOps.js: extractExifDate.  A buffer is a sequence of bytes (0..255), *)
(* an offset counts from 0.  A read outside the buffer throws RangeError:  *)
(* the operators below give Thrown for it, and -1 where they give an       *)
(* offset.                                                                 *)
(***************************************************************************)
Thrown == [thrown |-> TRUE]

\* DataView reads throw unless the n bytes at offset o lie inside the buffer
InBounds(b, o, n) == o >= 0 /\ o + n <= Len(b)

getUint8(b, o) == b[o + 1]

getUint16(b, o, littleEndian) ==
  IF littleEndian THEN b[o + 1] + 256 * b[o + 2] ELSE 256 * b[o + 1] + b[o + 2]

\* every value of 2^24 and more lies beyond the end of every buffer of the
\* model and is read as 2^24
Beyond == 16777216

getUint32(b, o, littleEndian) ==
  LET b3 == IF littleEndian THEN b[o + 4] ELSE b[o + 1]
      b2 == IF littleEndian THEN b[o + 3] ELSE b[o + 2]
      b1 == IF littleEndian THEN b[o + 2] ELSE b[o + 3]
      b0 == IF littleEndian THEN b[o + 1] ELSE b[o + 4]
  IN IF b3 > 0 THEN Beyond ELSE 65536 * b2 + 256 * b1 + b0

\* dataView.getUint32(offset, false) === 0x45786966: the bytes of "Exif"
isExifSignature(b, o) == SubSeq(b, o + 1, o + 4) = <<69, 120, 105, 102>>

SOI == 65496
APP1 == 65505
TagDateTimeOriginal == 36867
TagExifIFD == 34665
ByteOrderII == 18761
ByteOrderMM == 19789

RECURSIVE scanSegments(_, _)
\* lines 21-32: the while loop over the marker segments, entered at offset;
\* the offset the loop leaves
scanSegments(b, offset) ==
  IF ~(offset < Len(b) - 1) THEN offset
  ELSE IF ~InBounds(b, offset + 2, 2) THEN -1
  ELSE LET marker == getUint16(b, offset, FALSE)
           length == getUint16(b, offset + 2, FALSE)
       IN IF marker = APP1
          THEN IF ~InBounds(b, offset + 4, 4) THEN -1
               ELSE IF isExifSignature(b, offset + 4)
                    THEN IF ~InBounds(b, offset + 8, 2) THEN -1
                         ELSE IF getUint16(b, offset + 8, FALSE) = 0
                              THEN offset + 10
                              ELSE scanSegments(b, offset + 4 + 2 + length)
                    ELSE scanSegments(b, offset + 4 + 2 + length)
          ELSE scanSegments(b, offset + 2 + length)

IsDigitByte(c) == c >= 48 /\ c <= 57

RECURSIVE numberAt(_, _, _)
\* the number written by the n digit bytes at offset o
numberAt(b, o, n) ==
  IF n = 0 THEN 0 ELSE 10 * numberAt(b, o, n - 1) + (getUint8(b, o + n - 1) - 48)

isLeapYear(y) == (y % 4 = 0 /\ y % 100 # 0) \/ y % 400 = 0

\* the days of the month with index mi (0 = January) of year y
daysInMonth(y, mi) ==
  IF mi = 1 THEN (IF isLeapYear(y) THEN 29 ELSE 28)
  ELSE IF mi \in {3, 5, 8, 10} THEN 30 ELSE 31

RECURSIVE rollDays(_, _, _)
\* the calendar date of day d of month mi of year y, d below 1 or beyond the
\* end of the month counted into the neighbouring months
rollDays(y, mi, d) ==
  IF d < 1
  THEN LET py == IF mi = 0 THEN y - 1 ELSE y
           pm == IF mi = 0 THEN 11 ELSE mi - 1
       IN rollDays(py, pm, d + daysInMonth(py, pm))
  ELSE IF d > daysInMonth(y, mi)
       THEN rollDays(IF mi = 11 THEN y + 1 ELSE y, IF mi = 11 THEN 0 ELSE mi + 1,
                     d - daysInMonth(y, mi))
       ELSE [y |-> y, m |-> mi + 1, d |-> d]

\* new Date(year, monthIndex, day, hour, minute, second), as local date
newDate(year, monthIndex, day, hour, minute, second) ==
  LET fullYear == IF year >= 0 /\ year <= 99 THEN 1900 + year ELSE year
      y1 == IF monthIndex < 0 THEN fullYear - 1 ELSE fullYear + (monthIndex \div 12)
      m1 == IF monthIndex < 0 THEN 11 ELSE monthIndex % 12
      carry == (hour * 3600 + minute * 60 + second) \div 86400
  IN rollDays(y1, m1, day + carry)

\* /^(\d{4}):(\d{2}):(\d{2}) (\d{2}):(\d{2}):(\d{2})$/ on the n bytes at vo
matchesDate(b, vo, n) ==
  /\ n = 19
  /\ \A k \in 0..18 :
       IF k \in {4, 7, 13, 16} THEN getUint8(b, vo + k) = 58
       ELSE IF k = 10 THEN getUint8(b, vo + k) = 32
       ELSE IsDigitByte(getUint8(b, vo + k))

\* lines 61-69: the date string of count - 1 bytes at valueOffset and its
\* match; NoDate when the text does not match
readDate(b, valueOffset, count) ==
  IF count - 1 > 0 /\ ~InBounds(b, valueOffset, count - 1) THEN Thrown
  ELSE IF ~matchesDate(b, valueOffset, count - 1) THEN NoDate
  ELSE newDate(numberAt(b, valueOffset, 4), numberAt(b, valueOffset + 5, 2) - 1,
               numberAt(b, valueOffset + 8, 2), numberAt(b, valueOffset + 11, 2),
               numberAt(b, valueOffset + 14, 2), numberAt(b, valueOffset + 17, 2))

RECURSIVE scanEntries(_, _, _, _, _, _)
\* lines 48-72 and 81-105: the loop over the n entries of the directory at
\* position, from entry i, looking for tag 0x9003; NoDate when the loop ends
scanEntries(b, offset, position, n, i, littleEndian) ==
  IF i >= n THEN NoDate
  ELSE LET entryOffset == position + 2 + (i * 12)
       IN IF ~InBounds(b, entryOffset, 2) THEN Thrown
          ELSE IF getUint16(b, entryOffset, littleEndian) # TagDateTimeOriginal
               THEN scanEntries(b, offset, position, n, i + 1, littleEndian)
          ELSE IF ~InBounds(b, entryOffset + 2, 2) \/ ~InBounds(b, entryOffset + 4, 4)
               THEN Thrown
          ELSE IF getUint16(b, entryOffset + 2, littleEndian) # 2
               THEN scanEntries(b, offset, position, n, i + 1, littleEndian)
          ELSE IF ~InBounds(b, entryOffset + 8, 4) THEN Thrown
          ELSE LET count == getUint32(b, entryOffset + 4, littleEndian)
                   valueOffset == IF count <= 4 THEN entryOffset + 8
                                  ELSE offset + getUint32(b, entryOffset + 8, littleEndian)
                   date == readDate(b, valueOffset, count)
               IN IF date = NoDate
                  THEN scanEntries(b, offset, position, n, i + 1, littleEndian)
                  ELSE date

RECURSIVE scanForExifIFD(_, _, _, _, _, _)
\* lines 74-107: the loop over the entries of IFD0, from entry i, looking
\* for tag 0x8769 and scanning the directory it points to
scanForExifIFD(b, offset, position, n, i, littleEndian) ==
  IF i >= n THEN NoDate
  ELSE LET entryOffset == position + 2 + (i * 12)
       IN IF ~InBounds(b, entryOffset, 2) THEN Thrown
          ELSE IF getUint16(b, entryOffset, littleEndian) # TagExifIFD
               THEN scanForExifIFD(b, offset, position, n, i + 1, littleEndian)
          ELSE IF ~InBounds(b, entryOffset + 8, 4) THEN Thrown
          ELSE LET exifIFDPosition == offset + getUint32(b, entryOffset + 8, littleEndian)
               IN IF ~InBounds(b, exifIFDPosition, 2) THEN Thrown
                  ELSE LET date == scanEntries(b, offset, exifIFDPosition,
                                     getUint16(b, exifIFDPosition, littleEndian), 0,
                                     littleEndian)
                       IN IF date = NoDate
                          THEN scanForExifIFD(b, offset, position, n, i + 1, littleEndian)
                          ELSE date

\* lines 35-107: the TIFF structure at offset
readTiff(b, offset) ==
  IF ~InBounds(b, offset, 2) THEN Thrown
  ELSE LET tiffHeader == getUint16(b, offset, FALSE)
           isLittleEndian == tiffHeader = ByteOrderII
       IN IF tiffHeader \notin {ByteOrderII, ByteOrderMM} THEN NoDate
          ELSE IF ~InBounds(b, offset + 4, 4) THEN Thrown
          ELSE LET ifd0Position == offset + getUint32(b, offset + 4, isLittleEndian)
               IN IF ~InBounds(b, ifd0Position, 2) THEN Thrown
                  ELSE LET numEntries == getUint16(b, ifd0Position, isLittleEndian)
                           date == scanEntries(b, offset, ifd0Position, numEntries, 0,
                                               isLittleEndian)
                       IN IF date = NoDate
                          THEN scanForExifIFD(b, offset, ifd0Position, numEntries, 0,
                                              isLittleEndian)
                          ELSE date

\* lines 14-107: the body of the try block
parseExif(b) ==
  IF ~InBounds(b, 0, 2) THEN Thrown
  ELSE IF getUint16(b, 0, FALSE) = SOI
       THEN LET offset == scanSegments(b, 2)
            IN IF offset = -1 THEN Thrown ELSE readTiff(b, offset)
       ELSE readTiff(b, 0)

\* faulty variant of catchAll: the exception is not caught
catchNothing(r) == r

\* lines 108-109: catch (_) {} return null
catchAll(r) == IF r = Thrown THEN NoDate ELSE r

extractExifDate(b) == catchAll(parseExif(b))

\* lines 112-119; readFails: readFile rejects
getExifDate(b, readFails) == IF readFails THEN NoDate ELSE catchAll(extractExifDate(b))

(***************************************************************************)
(* fileOps.js: scanning                                                    *)
(***************************************************************************)
getFileHash(F, filePath, size) == <<size, MD5(F[filePath].c)>>

\* the truthiness of a value that is null or a Date object: every object is
\* truthy, new Date(0) included
isTruthy(v) == v # NoDate

\* lines 123-125: exifDate if truthy, else stats.birthtime || stats.mtime
resolveDate(exifDate, stats) ==
  IF isTruthy(exifDate) THEN exifDate
  ELSE IF isTruthy(stats.birthtime) THEN stats.birthtime ELSE stats.mtime

\* lines 121-126
getFileDate(F, filePath) ==
  resolveDate(Meta(F[filePath].d).exif, Meta(F[filePath].d))

isInOrganizedPath(root, fullPath) ==
  IF ~IsPrefix(root, fullPath) \/ fullPath = root \/ RelStartsDotDot(root, fullPath)
  THEN FALSE
  ELSE LET parts == RelParts(root, fullPath)
       IN IF Len(parts) < 2 THEN FALSE
          ELSE IsYearPart(parts[1]) /\ IsDayPart(parts[2])

RECURSIVE findMediaFilesIn(_, _, _, _, _, _)
\* the loop over the entries of dir; acc is [files, dirSet]
findMediaFilesIn(F, D, dir, entries, root, acc) ==
  IF entries = <<>> THEN acc
  ELSE LET name == Head(entries)
           fullPath == join(dir, name)
           rest == Tail(entries)
       IN IF fullPath \in D
          THEN IF isInOrganizedPath(root, fullPath)
               THEN findMediaFilesIn(F, D, dir, rest, root, acc)
               ELSE LET sub == [acc EXCEPT !.dirSet = SetAdd(SetAdd(@, fullPath), fullPath)]
                    IN findMediaFilesIn(F, D, dir, rest, root,
                         findMediaFilesIn(F, D, fullPath, Readdir(F, D, fullPath), root, sub))
          ELSE IF IsMediaName(name)
               THEN findMediaFilesIn(F, D, dir, rest, root,
                      [acc EXCEPT !.files = Append(@, fullPath)])
               ELSE findMediaFilesIn(F, D, dir, rest, root, acc)

findMediaFiles(F, D, dir, root) ==
  findMediaFilesIn(F, D, dir, Readdir(F, D, dir), root,
                   [files |-> <<>>, dirSet |-> <<dir>>])

(***************************************************************************)
(* MediaOrganizer.js: organize(), the fingerprint loop and the planning    *)
(* loop                                                                    *)
(***************************************************************************)
\* faulty variant of seenHas: no fingerprint is ever found in seenHashes
seenHasNever(seen, hash) == FALSE

\* seenHashes.has(hash)
seenHas(seen, hash) == hash \in DOMAIN seen

RECURSIVE readMetadata(_, _, _, _)
\* lines 72-89: seen is seenHashes (hash -> first path), infos is fileInfos
readMetadata(F, files, seen, infos) ==
  IF files = <<>> THEN infos
  ELSE LET filePath == Head(files)
           size == Size(F[filePath].c)
           date == getFileDate(F, filePath)
           hash == getFileHash(F, filePath, size)
           info == [path |-> filePath, size |-> size, date |-> date, hash |-> hash,
                    isDuplicate |-> seenHas(seen, hash),
                    originalPath |-> IF seenHas(seen, hash) THEN seen[hash] ELSE <<>>]
           seen2 == IF seenHas(seen, hash) THEN seen
                    ELSE [h \in (DOMAIN seen) \cup {hash} |->
                            IF h = hash THEN filePath ELSE seen[h]]
       IN readMetadata(F, Tail(files), seen2, Append(infos, info))

\* join(targetPath, String(year), `${year}-${month}-${day}`)
targetDirOf(targetPath, date) ==
  join(join(targetPath, ToString(date.y)),
       ToString(date.y) \o "-" \o padStart2(date.m) \o "-" \o padStart2(date.d))

\* faulty variant of candidateName: the counter is written after the extension
candidateNameAfterExt(originalName, i) ==
  IF i = 0 THEN originalName ELSE originalName \o "-" \o ToString(i)

\* i === 0 ? `${base}${ext}` : `${base}-${i}${ext}`
candidateName(originalName, i) ==
  LET ne == splitNameAndExt(originalName)
  IN IF i = 0 THEN ne.base \o ne.ext ELSE ne.base \o "-" \o ToString(i) \o ne.ext

RECURSIVE resolveFrom(_, _, _, _, _)
\* the while (true) loop of resolveDestinationOperation, from counter i
resolveFrom(F, D, info, targetDir, i) ==
  LET candidatePath == join(targetDir, candidateName(basename(info.path), i))
  IN IF ~pathExistsIn(F, D, candidatePath)
     THEN [kind |-> "move", target |-> candidatePath, targetDir |-> targetDir]
     ELSE IF candidatePath \in D
          THEN [kind |-> "throw"]
          ELSE IF getFileHash(F, candidatePath, Size(F[candidatePath].c)) = info.hash
               THEN [kind |-> "delete", duplicateOf |-> candidatePath]
               ELSE resolveFrom(F, D, info, targetDir, i + 1)

\* faulty variant of resolveDestinationOperation: the counter starts at 1
resolveFromOne(F, D, info, targetDir) == resolveFrom(F, D, info, targetDir, 1)

\* let i = 0; while (true) { ... i += 1 }
resolveDestinationOperation(F, D, info, targetDir) == resolveFrom(F, D, info, targetDir, 0)

\* faulty variant of planOne: a duplicate goes through destination resolution
\* like every other file
planOneResolvesAll(F, D, targetPath, info) ==
  LET targetDir == targetDirOf(targetPath, info.date)
      resolution == resolveDestinationOperation(F, D, info, targetDir)
  IN IF info.path = join(targetDir, basename(info.path)) THEN <<>>
     ELSE IF resolution.kind = "throw" THEN <<[type |-> "throw"]>>
     ELSE IF resolution.kind = "delete"
          THEN <<[type |-> "delete", source |-> info.path,
                  reason |-> resolution.duplicateOf]>>
          ELSE <<[type |-> "move", source |-> info.path,
                  target |-> resolution.target,
                  targetDir |-> resolution.targetDir]>>

\* the plan entry of one fileInfo: <<>> (no entry) or <<op>>; an entry of type
\* "throw" stands for the exception of reading a directory as a file
planOne(F, D, targetPath, info) ==
  IF info.isDuplicate
  THEN <<[type |-> "delete", source |-> info.path, reason |-> info.originalPath]>>
  ELSE LET targetDir == targetDirOf(targetPath, info.date)
           firstCandidatePath == join(targetDir, basename(info.path))
       IN IF info.path = firstCandidatePath THEN <<>>
          ELSE LET resolution == resolveDestinationOperation(F, D, info, targetDir)
               IN IF resolution.kind = "throw" THEN <<[type |-> "throw"]>>
                  ELSE IF resolution.kind = "delete"
                       THEN <<[type |-> "delete", source |-> info.path,
                               reason |-> resolution.duplicateOf]>>
                       ELSE <<[type |-> "move", source |-> info.path,
                               target |-> resolution.target,
                               targetDir |-> resolution.targetDir]>>

RECURSIVE planFromPrepending(_, _, _, _, _)
\* faulty variant of planFrom: each entry is put at the head of the plan
planFromPrepending(F, D, targetPath, infos, ops) ==
  IF infos = <<>> THEN ops
  ELSE planFromPrepending(F, D, targetPath, Tail(infos),
                          planOne(F, D, targetPath, Head(infos)) \o ops)

RECURSIVE planFrom(_, _, _, _, _)
\* lines 94-112
planFrom(F, D, targetPath, infos, ops) ==
  IF infos = <<>> THEN ops
  ELSE planFrom(F, D, targetPath, Tail(infos),
                ops \o planOne(F, D, targetPath, Head(infos)))

planOperations(F, D, targetPath, infos) == planFrom(F, D, targetPath, infos, <<>>)

(***************************************************************************)
(* fileOps.js: pruning.  Every operator returns the file system it leaves  *)
(* as [F, D] (tryRemoveIfEffectivelyEmpty: and removed).                   *)
(***************************************************************************)
\* the content id of an entry that is neither a file nor a directory (a
\* symbolic link, a socket)
Special == 0

\* faulty variant of isFile: every entry that is no directory counts as a file
isEntry(F, p) == p \in DOMAIN F

\* entry.isFile()
isFile(F, p) == p \in DOMAIN F /\ F[p].c # Special

RECURSIVE tryRemoveIfEffectivelyEmpty(_, _, _)
RECURSIVE tryRemoveEntries(_, _, _, _)

\* the first loop of tryRemoveIfEffectivelyEmpty, over the entries read
tryRemoveEntries(F, D, dir, entries) ==
  IF entries = <<>> THEN [F |-> F, D |-> D]
  ELSE LET entryPath == join(dir, Head(entries))
       IN IF isFile(F, entryPath)
          THEN IF isIgnorableFile(Head(entries))
               THEN tryRemoveEntries(RemoveFile(F, entryPath), D, dir, Tail(entries))
               ELSE tryRemoveEntries(F, D, dir, Tail(entries))
          ELSE IF entryPath \in D
               THEN LET sub == tryRemoveIfEffectivelyEmpty(F, D, entryPath)
                    IN tryRemoveEntries(sub.F, sub.D, dir, Tail(entries))
               ELSE tryRemoveEntries(F, D, dir, Tail(entries))

tryRemoveIfEffectivelyEmpty(F, D, dir) ==
  IF dir \notin D
  THEN [F |-> F, D |-> D, removed |-> FALSE]
  ELSE LET after == tryRemoveEntries(F, D, dir, Readdir(F, D, dir))
           entries == Readdir(after.F, after.D, dir)
           remaining == { i \in 1..Len(entries) :
                            ~(isFile(after.F, join(dir, entries[i]))
                              /\ isIgnorableFile(entries[i])) }
       IN IF remaining = {}
          THEN [F |-> RemoveTreeFiles(after.F, dir), D |-> RemoveTreeDirs(after.D, dir),
                removed |-> TRUE]
          ELSE [F |-> after.F, D |-> after.D, removed |-> FALSE]

RECURSIVE removeEmptyUpwardsAlways(_, _, _, _)
\* faulty variant of removeEmptyUpwards: the climb goes on after a directory
\* that was not removed
removeEmptyUpwardsAlways(F, D, current, stopAt) ==
  IF current = stopAt THEN [F |-> F, D |-> D, tried |-> <<>>]
  ELSE IF RelStartsDotDot(stopAt, current) \/ RelParts(stopAt, current) = <<>>
       THEN [F |-> F, D |-> D, tried |-> <<>>]
       ELSE LET t == tryRemoveIfEffectivelyEmpty(F, D, current)
                up == removeEmptyUpwardsAlways(t.F, t.D, dirname(current), stopAt)
            IN [up EXCEPT !.tried = <<[dir |-> current, removed |-> t.removed]>> \o @]

RECURSIVE removeEmptyUpwards(_, _, _, _)
\* tried: the calls of tryRemoveIfEffectivelyEmpty the loop makes, in order,
\* as [dir, removed]
removeEmptyUpwards(F, D, current, stopAt) ==
  IF current = stopAt THEN [F |-> F, D |-> D, tried |-> <<>>]
  ELSE IF RelStartsDotDot(stopAt, current) \/ RelParts(stopAt, current) = <<>>
       THEN [F |-> F, D |-> D, tried |-> <<>>]
       ELSE LET t == tryRemoveIfEffectivelyEmpty(F, D, current)
                call == [dir |-> current, removed |-> t.removed]
            IN IF t.removed
               THEN LET up == removeEmptyUpwards(t.F, t.D, dirname(current), stopAt)
                    IN [up EXCEPT !.tried = <<call>> \o @]
               ELSE [F |-> t.F, D |-> t.D, tried |-> <<call>>]

\* the calls of one climb, each with the directory the climb started at
startedAt(tried, from) ==
  [k \in 1..Len(tried) |->
     [dir |-> tried[k].dir, removed |-> tried[k].removed, from |-> from]]

RECURSIVE cleanupEach(_, _, _, _)
\* tried: the calls of every climb, in order, as [dir, removed, from], from the
\* directory the climb started at
cleanupEach(F, D, unique, stopAt) ==
  IF unique = <<>> THEN [F |-> F, D |-> D, tried |-> <<>>]
  ELSE LET u == removeEmptyUpwards(F, D, Head(unique), stopAt)
           rest == cleanupEach(u.F, u.D, Tail(unique), stopAt)
       IN [rest EXCEPT !.tried = startedAt(u.tried, Head(unique)) \o @]

cleanupEmptyDirectories(F, D, dirs, stopAt) ==
  cleanupEach(F, D, SortByLengthDesc(SetAddAll(<<>>, dirs)), stopAt)

\* the entries of dir that are directories, as paths, in readdir order
RECURSIVE subdirsOf(_, _, _)
subdirsOf(D, dir, entries) ==
  IF entries = <<>> THEN <<>>
  ELSE IF join(dir, Head(entries)) \in D
       THEN <<join(dir, Head(entries))>> \o subdirsOf(D, dir, Tail(entries))
       ELSE subdirsOf(D, dir, Tail(entries))

\* faulty variant of walkStack: the walk collects the root alone
walkStackNoDescent(F, D, stack, visited) == stack

RECURSIVE walkStack(_, _, _, _)
\* the while (stack.length) loop of pruneAllEmptyDirs
walkStack(F, D, stack, visited) ==
  IF stack = <<>> THEN visited
  ELSE LET dir == stack[Len(stack)]
           rest == SubSeq(stack, 1, Len(stack) - 1)
       IN IF dir \in Range(visited) THEN walkStack(F, D, rest, visited)
          ELSE IF dir \in D
               THEN walkStack(F, D, rest \o subdirsOf(D, dir, Readdir(F, D, dir)),
                              Append(visited, dir))
               ELSE walkStack(F, D, rest, Append(visited, dir))

RECURSIVE pruneEachWithRoot(_, _, _, _)
\* faulty variant of pruneEach: the root is not skipped
pruneEachWithRoot(F, D, ordered, root) ==
  IF ordered = <<>> THEN [F |-> F, D |-> D, tried |-> <<>>]
  ELSE LET t == tryRemoveIfEffectivelyEmpty(F, D, Head(ordered))
           rest == pruneEachWithRoot(t.F, t.D, Tail(ordered), root)
       IN [rest EXCEPT !.tried = <<[dir |-> Head(ordered), removed |-> t.removed,
                                    from |-> Head(ordered)]>> \o @]

RECURSIVE pruneEach(_, _, _, _)
\* lines 253-256; tried: the calls of tryRemoveIfEffectivelyEmpty, in order
pruneEach(F, D, ordered, root) ==
  IF ordered = <<>> THEN [F |-> F, D |-> D, tried |-> <<>>]
  ELSE IF Head(ordered) = root THEN pruneEach(F, D, Tail(ordered), root)
       ELSE LET t == tryRemoveIfEffectivelyEmpty(F, D, Head(ordered))
                rest == pruneEach(t.F, t.D, Tail(ordered), root)
            IN [rest EXCEPT !.tried = <<[dir |-> Head(ordered), removed |-> t.removed,
                                         from |-> Head(ordered)]>> \o @]

\* faulty variant of pruneAllEmptyDirs: the sweep removes nothing
pruneNothing(F, D, root) == [F |-> F, D |-> D, tried |-> <<>>]

pruneAllEmptyDirs(F, D, root) ==
  pruneEach(F, D, SortByLengthDesc(walkStack(F, D, <<root>>, <<>>)), root)

(***************************************************************************)
(* State.                                                                  *)
(***************************************************************************)
VARIABLES
  fsFiles,          \* the file system: file path -> [c, d]
  fsDirs,           \* the file system: directory paths
  files0,           \* fsFiles when the run started
  dirs0,            \* fsDirs when the run started
  dryRun,           \* !args.includes('--execute')
  pc,               \* where the run is
  visitedDirs,      \* organize(): visitedDirs, in insertion order
  fileInfos,        \* organize(): fileInfos
  operations,       \* useState: the plan
  awaitingConfirm,  \* useState
  executing,        \* useState
  selectedIndex,    \* useState, 0-based
  overrides,        \* useState: plan index (0-based) -> override
  renameMode,       \* useState
  renameInput,      \* useState
  error,            \* useState: an error was reported
  execIdx,          \* the loop counter i of the running execution loop
  sourceDirs,       \* the sourceDirs of the running execution loop
  last,             \* history: the toggle the last input event made, or "other"
  nEvents,          \* history: input events handled in review
  confirmed,        \* history: an input event reached the confirm branch
  probe             \* one call of getFileDate: [buffer, stat, exif, date, done]

vars == <<fsFiles, fsDirs, files0, dirs0, dryRun, pc, visitedDirs, fileInfos,
          operations, awaitingConfirm, executing, selectedIndex, overrides,
          renameMode, renameInput, error, execIdx, sourceDirs, last, nEvents,
          confirmed, probe>>

targetPath == Root

NoToggle == [kind |-> "other", before |-> "none"]

\* faulty variant of opAt: the plan is read from its end
opAtFromEnd(ops, i) == ops[Len(ops) - i]

\* operations[i] of the code, i counted from 0
opAt(ops, i) == ops[i + 1]

(***************************************************************************)
(* Initial file systems: at most MaxFiles files in the places below, media *)
(* files with any content in 1..MaxContent.                                *)
(***************************************************************************)
Slots ==
  { join(Root, "x.jpg"), join(DirA, "x.jpg"),
    join(DirA, "._x.jpg"),
    join(DirDay, "x.jpg"), join(DirDay, "x-1.jpg"),
    join(DirB, ".DS_Store"), join(DirB, "n.txt"), join(DirDay, ".DS_Store") }

InitialDirs(S) ==
  {Top, Outside, Root, DirA, DirB} \cup UNION { Ancestors(dirname(p)) : p \in S }

\* the trees with entries in places of P \cup X: those in P are files, whose
\* media files carry d fields of Ds, those in X are neither file nor directory
InitFSOf(P, Ds, X) ==
  \E S \in SUBSET (P \cup X) :
    /\ Cardinality(S) <= MaxFiles
    /\ \E cf \in [S -> 1..MaxContent], df \in [S -> Ds \cup {1}] :
         /\ \A p \in S : ~IsMediaName(basename(p)) => (cf[p] = 1 /\ df[p] = 1)
         /\ fsFiles = [p \in S |-> [c |-> IF p \in X THEN Special ELSE cf[p],
                                     d |-> df[p]]]
         /\ fsDirs = InitialDirs(S)

\* the trees with files in places of P whose media files carry d fields of Ds
InitFSWith(P, Ds) == InitFSOf(P, Ds, {})

InitFS == InitFSWith(Slots, {1})

\* no call of getFileDate is followed on its own
NoProbe == [buffer |-> <<>>, stat |-> 1, exif |-> NoDate, date |-> NoDate, done |-> FALSE]

InitRun ==
  /\ probe = NoProbe
  /\ files0 = fsFiles
  /\ dirs0 = fsDirs
  /\ visitedDirs = <<>>
  /\ fileInfos = <<>>
  /\ operations = <<>>
  /\ awaitingConfirm = FALSE
  /\ executing = FALSE
  /\ selectedIndex = 0
  /\ overrides = <<>>
  /\ renameMode = FALSE
  /\ renameInput = ""
  /\ error = FALSE
  /\ execIdx = 0
  /\ sourceDirs = <<>>
  /\ last = NoToggle
  /\ nEvents = 0
  /\ confirmed = FALSE

Init ==
  /\ InitFS
  /\ dryRun \in BOOLEAN
  /\ pc = "Planning"
  /\ InitRun

(***************************************************************************)
(* organize(): scan, fingerprints, plan (lines 60-115, 137-141)            *)
(***************************************************************************)
\* faulty variant of executesAtOnce: the run executes the plan in dry-run mode too
executesAlways(dr) == TRUE

\* line 116: the plan is executed without review
executesAtOnce(dr) == ~dr

\* faulty variant of skipsAfterThrow: the lines after the planning loop run
\* after a throw too
skipsNever(threw) == FALSE

\* lines 61 and 142: a throw inside the try block leaves it for the catch
\* block, past lines 114-141
skipsAfterThrow(threw) == threw

\* fault: readdir, stat or readFile rejects during scanning, hashing or
\* destination resolution
Organize(fault) ==
  /\ pc = "Planning"
  /\ LET scan == findMediaFiles(fsFiles, fsDirs, targetPath, targetPath)
         infos == readMetadata(fsFiles, scan.files, <<>>, <<>>)
         ops == planOperations(fsFiles, fsDirs, targetPath, infos)
         threw == fault \/ \E k \in 1..Len(ops) : ops[k].type = "throw"
     IN /\ visitedDirs' = IF fault THEN <<>> ELSE scan.dirSet
        /\ fileInfos' = IF fault THEN <<>> ELSE infos
        /\ error' = threw
        /\ IF skipsAfterThrow(threw)
           THEN /\ pc' = "Error"
                /\ UNCHANGED <<operations, awaitingConfirm, executing>>
           ELSE /\ operations' = ops
                /\ IF executesAtOnce(dryRun)
                   THEN /\ executing' = TRUE
                        /\ pc' = "Executing"
                        /\ UNCHANGED awaitingConfirm
                   ELSE /\ awaitingConfirm' = TRUE
                        /\ pc' = "Review"
                        /\ UNCHANGED executing
  /\ UNCHANGED <<probe, fsFiles, fsDirs, files0, dirs0, dryRun, selectedIndex, overrides,
                 renameMode, renameInput, execIdx, sourceDirs, last, nEvents, confirmed>>

(***************************************************************************)
(* useInput handler (lines 149-240).  An event is the name of a special    *)
(* key or the character typed.                                             *)
(***************************************************************************)
Keys == {"upArrow", "downArrow", "escape", "return"}
Chars == {"i", "d", "r", "y", "n", "q", "k"}
Events == Keys \cup Chars

\* the input argument of the handler: the character, "" for a special key
inputOf(e) == IF e \in Keys THEN "" ELSE e

Max(a, b) == IF a >= b THEN a ELSE b
Min(a, b) == IF a <= b THEN a ELSE b

\* prev[selectedIndex]?.type
typeAt(ov, i) == IF i \in DOMAIN ov THEN ov[i].type ELSE "none"

\* { ...prev, [i]: o }
withOverride(ov, i, o) == [j \in (DOMAIN ov) \cup {i} |-> IF j = i THEN o ELSE ov[j]]

\* delete next[i]
withoutOverride(ov, i) == [j \in (DOMAIN ov) \ {i} |-> ov[j]]

\* faulty variant of toggleOverride: the toggle never removes the override
toggleAlwaysSets(prev, i, kind) == withOverride(prev, i, [type |-> kind])

\* faulty variant of toggleOverride: an override of another kind is kept
toggleKeepsOther(prev, i, kind) ==
  IF typeAt(prev, i) = kind THEN withoutOverride(prev, i)
  ELSE IF typeAt(prev, i) # "none" THEN prev
       ELSE withOverride(prev, i, [type |-> kind])

\* lines 166-171 and 175-180: the updater of the ignore and delete toggles
toggleOverride(prev, i, kind) ==
  IF typeAt(prev, i) = kind THEN withoutOverride(prev, i)
  ELSE withOverride(prev, i, [type |-> kind])

\* faulty variant of renamePath: the name is always joined with the directory
\* of the source
renamePathBesideSource(op, name) == join(dirname(op.source), name)

\* line 159
renamePath(op, name) ==
  IF op.type = "move" THEN join(op.targetDir, name) ELSE join(dirname(op.source), name)

\* line 189
initialName(op) == IF op.type = "move" THEN basename(op.target) ELSE basename(op.source)

\* operations[selectedIndex] is undefined
noOpAt(ops, i) == i < 0 \/ i >= Len(ops)

\* the event reaches line 197 and starts the execution
confirms(rm, e) ==
  /\ ~(~rm /\ e \in {"upArrow", "downArrow"})
  /\ ~(rm /\ e \in {"escape", "return"})
  /\ ~(~rm /\ toLowerCase(inputOf(e)) \in {"i", "d", "r"})
  /\ (e = "return" \/ toLowerCase(inputOf(e)) = "y")

\* faulty variant of cancels: Escape cancels the run while a name is typed
cancelsInRename(rm, e) ==
  /\ ~(~rm /\ e \in {"upArrow", "downArrow"})
  /\ ~(rm /\ e = "return")
  /\ ~(~rm /\ toLowerCase(inputOf(e)) \in {"i", "d", "r"})
  /\ ~(e = "return" \/ toLowerCase(inputOf(e)) = "y")
  /\ (toLowerCase(inputOf(e)) = "n" \/ e = "escape" \/ toLowerCase(inputOf(e)) = "q")

\* the event reaches line 235 and cancels the run
cancels(rm, e) ==
  /\ ~(~rm /\ e \in {"upArrow", "downArrow"})
  /\ ~(rm /\ e \in {"escape", "return"})
  /\ ~(~rm /\ toLowerCase(inputOf(e)) \in {"i", "d", "r"})
  /\ ~(e = "return" \/ toLowerCase(inputOf(e)) = "y")
  /\ (toLowerCase(inputOf(e)) = "n" \/ e = "escape" \/ toLowerCase(inputOf(e)) = "q")

\* faulty variant of handle: the arrow keys move the selection while a name is
\* typed
handleNavigatesInRename(ops, st, e) ==
  IF e = "upArrow" THEN [st EXCEPT !.sel = Max(st.sel - 1, 0)]
  ELSE IF e = "downArrow" THEN [st EXCEPT !.sel = Min(st.sel + 1, Len(ops) - 1)]
  ELSE IF st.rm /\ e = "escape" THEN [st EXCEPT !.rm = FALSE]
  ELSE IF st.rm /\ e = "return"
       THEN IF noOpAt(ops, st.sel) THEN [st EXCEPT !.crash = TRUE]
            ELSE [st EXCEPT
                    !.ov = withOverride(st.ov, st.sel,
                             [type |-> "rename",
                              newPath |-> renamePath(opAt(ops, st.sel), st.ri)]),
                    !.rm = FALSE]
  ELSE IF ~st.rm /\ toLowerCase(inputOf(e)) = "i"
       THEN [st EXCEPT !.ov = toggleOverride(st.ov, st.sel, "ignore")]
  ELSE IF ~st.rm /\ toLowerCase(inputOf(e)) = "d"
       THEN [st EXCEPT !.ov = toggleOverride(st.ov, st.sel, "delete")]
  ELSE IF ~st.rm /\ toLowerCase(inputOf(e)) = "r"
       THEN IF typeAt(st.ov, st.sel) = "rename"
            THEN [st EXCEPT !.ov = withoutOverride(st.ov, st.sel)]
            ELSE IF noOpAt(ops, st.sel) THEN [st EXCEPT !.crash = TRUE]
                 ELSE [st EXCEPT !.ri = initialName(opAt(ops, st.sel)), !.rm = TRUE]
  ELSE st

\* the handler's effect on [sel, ov, rm, ri, crash]: selectedIndex, overrides,
\* renameMode, renameInput, and whether it throws
handle(ops, st, e) ==
  IF ~st.rm /\ e = "upArrow" THEN [st EXCEPT !.sel = Max(st.sel - 1, 0)]
  ELSE IF ~st.rm /\ e = "downArrow" THEN [st EXCEPT !.sel = Min(st.sel + 1, Len(ops) - 1)]
  ELSE IF st.rm /\ e = "escape" THEN [st EXCEPT !.rm = FALSE]
  ELSE IF st.rm /\ e = "return"
       THEN IF noOpAt(ops, st.sel) THEN [st EXCEPT !.crash = TRUE]
            ELSE [st EXCEPT
                    !.ov = withOverride(st.ov, st.sel,
                             [type |-> "rename",
                              newPath |-> renamePath(opAt(ops, st.sel), st.ri)]),
                    !.rm = FALSE]
  ELSE IF ~st.rm /\ toLowerCase(inputOf(e)) = "i"
       THEN [st EXCEPT !.ov = toggleOverride(st.ov, st.sel, "ignore")]
  ELSE IF ~st.rm /\ toLowerCase(inputOf(e)) = "d"
       THEN [st EXCEPT !.ov = toggleOverride(st.ov, st.sel, "delete")]
  ELSE IF ~st.rm /\ toLowerCase(inputOf(e)) = "r"
       THEN IF typeAt(st.ov, st.sel) = "rename"
            THEN [st EXCEPT !.ov = withoutOverride(st.ov, st.sel)]
            ELSE IF noOpAt(ops, st.sel) THEN [st EXCEPT !.crash = TRUE]
                 ELSE [st EXCEPT !.ri = initialName(opAt(ops, st.sel)), !.rm = TRUE]
  ELSE st

\* history: the toggle this event makes
toggleMade(st, e) ==
  IF ~st.rm /\ toLowerCase(inputOf(e)) = "i"
  THEN [kind |-> "ignore", before |-> typeAt(st.ov, st.sel)]
  ELSE IF ~st.rm /\ toLowerCase(inputOf(e)) = "d"
       THEN [kind |-> "delete", before |-> typeAt(st.ov, st.sel)]
       ELSE NoToggle

\* faulty variant of inputIgnored: the handler takes every event
inputIgnoredNever(awaiting, exec) == FALSE

\* line 150: if (!awaitingConfirm || executing) return
inputIgnored(awaiting, exec) == ~awaiting \/ exec

\* the handler runs on event e; an event that line 150 turns away changes
\* nothing, and a handler that has thrown takes no more events
UseInput(e) ==
  /\ pc # "Crashed"
  /\ ~inputIgnored(awaitingConfirm, executing)
  /\ LET st == [sel |-> selectedIndex, ov |-> overrides, rm |-> renameMode,
                ri |-> renameInput, crash |-> FALSE]
         nx == handle(operations, st, e)
     IN IF confirms(renameMode, e)
        THEN /\ awaitingConfirm' = FALSE
             /\ executing' = TRUE
             /\ pc' = "Executing"
             /\ confirmed' = TRUE
             /\ last' = NoToggle
             /\ nEvents' = 0
             /\ UNCHANGED <<selectedIndex, overrides, renameMode, renameInput>>
        ELSE IF cancels(renameMode, e)
        THEN /\ awaitingConfirm' = FALSE
             /\ pc' = "Canceled"
             /\ last' = NoToggle
             /\ nEvents' = 0
             /\ UNCHANGED <<executing, selectedIndex, overrides, renameMode, renameInput,
                            confirmed>>
        ELSE /\ nEvents < MaxEvents
             /\ nEvents' = nEvents + 1
             /\ selectedIndex' = nx.sel
             /\ overrides' = nx.ov
             /\ renameMode' = nx.rm
             /\ renameInput' = nx.ri
             /\ last' = toggleMade(st, e)
             /\ pc' = IF nx.crash THEN "Crashed" ELSE "Review"
             /\ UNCHANGED <<awaitingConfirm, executing, confirmed>>
  /\ execIdx' = 0
  /\ sourceDirs' = <<>>
  /\ UNCHANGED <<probe, fsFiles, fsDirs, files0, dirs0, dryRun, visitedDirs, fileInfos,
                 operations, error>>

(***************************************************************************)
(* ActionBar's text input: it sets renameInput through setRenameInput      *)
(* (line 259) while a rename is being typed.                               *)
(***************************************************************************)
TypedNames == {"k.jpg", ""}

EditRenameInput(name) ==
  /\ pc # "Crashed"
  /\ ~inputIgnored(awaitingConfirm, executing)
  /\ renameMode
  /\ nEvents < MaxEvents
  /\ renameInput # name
  /\ renameInput' = name
  /\ nEvents' = nEvents + 1
  /\ last' = NoToggle
  /\ UNCHANGED <<probe, fsFiles, fsDirs, files0, dirs0, dryRun, pc, visitedDirs, fileInfos,
                 operations, awaitingConfirm, executing, selectedIndex, overrides,
                 renameMode, error, execIdx, sourceDirs, confirmed>>

(***************************************************************************)
(* Execution.  A file system call that fails throws: the call's result is  *)
(* [F, D, ok].                                                             *)
(***************************************************************************)
\* await unlink(p)
unlink(F, D, p) ==
  IF p \in DOMAIN F THEN [F |-> RemoveFile(F, p), D |-> D, ok |-> TRUE]
  ELSE [F |-> F, D |-> D, ok |-> FALSE]

\* await mkdir(dir, { recursive: true }); await rename(source, target)
mkdirAndRename(F, D, dir, source, target) ==
  IF MkdirFails(F, dir) THEN [F |-> F, D |-> D, ok |-> FALSE]
  ELSE IF RenameFails(F, Mkdir(D, dir), source, target)
       THEN [F |-> F, D |-> Mkdir(D, dir), ok |-> FALSE]
       ELSE [F |-> Rename(F, source, target), D |-> Mkdir(D, dir), ok |-> TRUE]

\* faulty variant of effectiveAction: the entry's own type is tested before the
\* rename override
effectiveActionPlanFirst(opType, overrideType) ==
  IF overrideType = "ignore" THEN "skip"
  ELSE IF overrideType = "delete" THEN "unlink"
  ELSE IF opType = "delete" THEN "unlink"
  ELSE IF overrideType = "rename" THEN "renameTo"
  ELSE IF opType = "move" THEN "move"
  ELSE "nothing"

\* faulty variant of effectiveAction: a Move entry is moved under a delete
\* override
effectiveActionMovesFirst(opType, overrideType) ==
  IF overrideType = "ignore" THEN "skip"
  ELSE IF overrideType = "rename" THEN "renameTo"
  ELSE IF opType = "move" THEN "move"
  ELSE IF overrideType = "delete" THEN "unlink"
  ELSE IF opType = "delete" THEN "unlink"
  ELSE "nothing"

\* lines 207-220: which branch the execution loop takes for a plan entry
\* and its override type ("none" when there is no override)
effectiveAction(opType, overrideType) ==
  IF overrideType = "ignore" THEN "skip"
  ELSE IF overrideType = "delete" THEN "unlink"
  ELSE IF overrideType = "rename" THEN "renameTo"
  ELSE IF opType = "delete" THEN "unlink"
  ELSE IF opType = "move" THEN "move"
  ELSE "nothing"

\* the file system calls of one iteration of the loop of lines 204-221
applyWithOverride(F, D, op, ov, i) ==
  LET act == effectiveAction(op.type, typeAt(ov, i))
  IN IF act = "unlink" THEN unlink(F, D, op.source)
     ELSE IF act = "renameTo"
          THEN mkdirAndRename(F, D, dirname(ov[i].newPath), op.source, ov[i].newPath)
     ELSE IF act = "move" THEN mkdirAndRename(F, D, op.targetDir, op.source, op.target)
     ELSE [F |-> F, D |-> D, ok |-> TRUE]

\* the file system calls of one iteration of the loop of lines 120-129
applyPlanned(F, D, op) ==
  IF op.type = "delete" THEN unlink(F, D, op.source)
  ELSE IF op.type = "move" THEN mkdirAndRename(F, D, op.targetDir, op.source, op.target)
  ELSE [F |-> F, D |-> D, ok |-> TRUE]

\* the outcome of a file system call that rejects at once
rejected(F, D) == [F |-> F, D |-> D, ok |-> FALSE]

\* faulty variant of afterAction: a rejected call does not leave the loop
afterActionGoesOn(ok) == "Executing"

\* lines 142 and 228: a rejected call leaves the loop for the catch block
afterAction(ok) == IF ok THEN "Executing" ELSE "Error"

\* one iteration of the loop of the confirm handler (lines 204-221);
\* fault: the first file system call of the iteration rejects
ConfirmLoop(fault) ==
  /\ pc = "Executing" /\ dryRun
  /\ execIdx < Len(operations)
  /\ LET op == opAt(operations, execIdx)
         act == effectiveAction(op.type, typeAt(overrides, execIdx))
         r == IF fault THEN rejected(fsFiles, fsDirs)
              ELSE applyWithOverride(fsFiles, fsDirs, op, overrides, execIdx)
     IN /\ fault => act \in {"unlink", "renameTo", "move"}
        /\ fsFiles' = r.F
        /\ fsDirs' = r.D
        /\ sourceDirs' = IF act = "skip" THEN sourceDirs
                         ELSE SetAdd(sourceDirs, dirname(op.source))
        /\ pc' = afterAction(r.ok)
        /\ IF r.ok
           THEN /\ execIdx' = execIdx + 1
                /\ UNCHANGED <<error, executing>>
           ELSE /\ error' = TRUE
                /\ executing' = FALSE
                /\ UNCHANGED execIdx
  /\ UNCHANGED <<probe, files0, dirs0, dryRun, visitedDirs, fileInfos, operations,
                 awaitingConfirm, selectedIndex, overrides, renameMode, renameInput,
                 last, nEvents, confirmed>>

\* one iteration of the loop of organize() (lines 120-129);
\* fault: the first file system call of the iteration rejects
ExecuteLoop(fault) ==
  /\ pc = "Executing" /\ ~dryRun
  /\ execIdx < Len(operations)
  /\ LET op == opAt(operations, execIdx)
         r == IF fault THEN rejected(fsFiles, fsDirs)
              ELSE applyPlanned(fsFiles, fsDirs, op)
     IN /\ fault => op.type \in {"delete", "move"}
        /\ fsFiles' = r.F
        /\ fsDirs' = r.D
        /\ sourceDirs' = SetAdd(sourceDirs, dirname(op.source))
        /\ pc' = afterAction(r.ok)
        /\ IF r.ok
           THEN /\ execIdx' = execIdx + 1
                /\ UNCHANGED error
           ELSE /\ error' = TRUE
                /\ UNCHANGED execIdx
  /\ UNCHANGED <<probe, files0, dirs0, dryRun, visitedDirs, fileInfos, operations,
                 awaitingConfirm, executing, selectedIndex, overrides, renameMode,
                 renameInput, last, nEvents, confirmed>>

\* lines 130-131 and 222-225: the cleanup candidates and the targeted phase;
\* the confirm handler scans again for the visited directories
cleanupCandidates(F, D, dr, srcDirs, planVisited) ==
  SetAddAll(srcDirs,
            IF dr THEN findMediaFiles(F, D, targetPath, targetPath).dirSet
            ELSE planVisited)

\* fault: a readdir of the scan of line 223 rejects; that scan is made in
\* the confirm handler only, inside its try block
CleanupEmptyDirectories(fault) ==
  /\ pc = "Executing"
  /\ execIdx = Len(operations)
  /\ fault => dryRun
  /\ IF fault
     THEN /\ pc' = "Error"
          /\ error' = TRUE
          /\ executing' = FALSE
          /\ UNCHANGED <<fsFiles, fsDirs>>
     ELSE /\ LET c == cleanupEmptyDirectories(fsFiles, fsDirs,
                        cleanupCandidates(fsFiles, fsDirs, dryRun, sourceDirs, visitedDirs),
                        targetPath)
             IN /\ fsFiles' = c.F
                /\ fsDirs' = c.D
          /\ pc' = "Sweep"
          /\ UNCHANGED <<error, executing>>
  /\ UNCHANGED <<probe, files0, dirs0, dryRun, visitedDirs, fileInfos, operations,
                 awaitingConfirm, selectedIndex, overrides, renameMode,
                 renameInput, execIdx, sourceDirs, last, nEvents, confirmed>>

\* lines 132-135 and 226-231
PruneAllEmptyDirs ==
  /\ pc = "Sweep"
  /\ LET c == pruneAllEmptyDirs(fsFiles, fsDirs, targetPath)
     IN /\ fsFiles' = c.F
        /\ fsDirs' = c.D
  /\ pc' = "Done"
  /\ executing' = FALSE
  /\ UNCHANGED <<probe, files0, dirs0, dryRun, visitedDirs, fileInfos, operations,
                 awaitingConfirm, selectedIndex, overrides, renameMode,
                 renameInput, error, execIdx, sourceDirs, last, nEvents, confirmed>>

Next ==
  \/ \E fault \in BOOLEAN : Organize(fault)
  \/ \E e \in Events : UseInput(e)
  \/ \E name \in TypedNames : EditRenameInput(name)
  \/ \E fault \in BOOLEAN : ConfirmLoop(fault)
  \/ \E fault \in BOOLEAN : ExecuteLoop(fault)
  \/ \E fault \in BOOLEAN : CleanupEmptyDirectories(fault)
  \/ PruneAllEmptyDirs

Spec == Init /\ [][Next]_vars

(***************************************************************************)
(* The two pruning phases on their own: any initial file system and any    *)
(* set of at most MaxCand cleanup candidates, also the root itself and     *)
(* directories outside the root.                                           *)
(***************************************************************************)
CandidateDirs == {Top, Outside, Root, DirA, DirB, DirC, DirYear, DirDay}

\* the places of Slots and a second directory below r/a
PruneSlots == Slots \cup {join(DirC, ".DS_Store")}

\* an entry with an ignorable name that is neither file nor directory
SpecialSlots == {join(DirB, "._lnk")}

InitPrune ==
  /\ probe = NoProbe
  /\ InitFSOf(PruneSlots, {1}, SpecialSlots)
  /\ dryRun = FALSE
  /\ pc = "Executing"
  /\ files0 = fsFiles
  /\ dirs0 = fsDirs
  /\ visitedDirs = <<>>
  /\ fileInfos = <<>>
  /\ operations = <<>>
  /\ awaitingConfirm = FALSE
  /\ executing = TRUE
  /\ selectedIndex = 0
  /\ overrides = <<>>
  /\ renameMode = FALSE
  /\ renameInput = ""
  /\ error = FALSE
  /\ execIdx = 0
  /\ \E C \in SUBSET CandidateDirs :
       /\ Cardinality(C) <= MaxCand
       /\ sourceDirs = SeqOfSet(C)
  /\ last = NoToggle
  /\ nEvents = 0
  /\ confirmed = FALSE

NextPrune == (\E fault \in BOOLEAN : CleanupEmptyDirectories(fault)) \/ PruneAllEmptyDirs

PruneSpec == InitPrune /\ [][NextPrune]_vars

(***************************************************************************)
(* The planning pass on its own: files with every kind of metadata.        *)
(***************************************************************************)
PlanSlots ==
  (Slots \ {join(DirA, "._x.jpg")})
    \cup {join(Dir999, "x.jpg"), join(Dir999, "x-1.jpg"), join(Root, "Y.MOV")}

InitPlan ==
  /\ InitFSWith(PlanSlots, MetaIds)
  /\ dryRun = TRUE
  /\ pc = "Planning"
  /\ InitRun

NextPlan == \E fault \in BOOLEAN : Organize(fault)

PlanSpec == InitPlan /\ [][NextPlan]_vars

(***************************************************************************)
(* One call of getFileDate on its own: buffers with a capture date, cut    *)
(* short at every length or with one byte replaced.                        *)
(***************************************************************************)
\* "2023:11:20 10:30:00" and the terminating NUL
DateText ==
  <<50, 48, 50, 51, 58, 49, 49, 58, 50, 48, 32, 49, 48, 58, 51, 48, 58, 48, 48, 0>>

\* a little-endian TIFF structure: IFD0 at 8 with one entry, DateTimeOriginal,
\* ASCII, 20 bytes at offset 26
TiffII ==
  <<73, 73, 42, 0, 8, 0, 0, 0,
    1, 0,
    3, 144, 2, 0, 20, 0, 0, 0, 26, 0, 0, 0,
    0, 0, 0, 0>> \o DateText

\* a big-endian TIFF structure: IFD0 at 8 with one entry, the Exif IFD
\* pointer to 26; the Exif IFD with one entry, DateTimeOriginal at offset 44
TiffMM ==
  <<77, 77, 0, 42, 0, 0, 0, 8,
    0, 1,
    135, 105, 0, 4, 0, 0, 0, 1, 0, 0, 0, 26,
    0, 0, 0, 0,
    0, 1,
    144, 3, 0, 2, 0, 0, 0, 20, 0, 0, 0, 44,
    0, 0, 0, 0>> \o DateText

\* a JPEG file: SOI, an APP0 segment of length 4, an APP1 segment with the
\* Exif signature and TiffII
JpegExif ==
  <<255, 216,
    255, 224, 0, 4, 0, 0,
    255, 225, 0, 54, 69, 120, 105, 102, 0, 0>> \o TiffII

\* a JPEG file: SOI, an APP1 segment of length 6 that holds "http", an APP1
\* segment with the Exif signature and TiffII
JpegXmpExif ==
  <<255, 216,
    255, 225, 0, 6, 104, 116, 116, 112,
    255, 225, 0, 54, 69, 120, 105, 102, 0, 0>> \o TiffII

BaseBuffers == {TiffII, TiffMM, JpegExif, JpegXmpExif}

\* the bytes written over one byte of a buffer
CorruptBytes == {0, 2, 57, 255}

Truncations(b) == { SubSeq(b, 1, n) : n \in 0..Len(b) }

Corruptions(b) == { [b EXCEPT ![p] = v] : p \in 1..Len(b), v \in CorruptBytes }

ProbeBuffers == UNION { Truncations(b) \cup Corruptions(b) : b \in BaseBuffers }

InitExif ==
  /\ fsFiles = <<>>
  /\ fsDirs = {Top, Root}
  /\ dryRun = TRUE
  /\ pc = "Planning"
  /\ files0 = fsFiles
  /\ dirs0 = fsDirs
  /\ visitedDirs = <<>>
  /\ fileInfos = <<>>
  /\ operations = <<>>
  /\ awaitingConfirm = FALSE
  /\ executing = FALSE
  /\ selectedIndex = 0
  /\ overrides = <<>>
  /\ renameMode = FALSE
  /\ renameInput = ""
  /\ error = FALSE
  /\ execIdx = 0
  /\ sourceDirs = <<>>
  /\ last = NoToggle
  /\ nEvents = 0
  /\ confirmed = FALSE
  /\ \E b \in ProbeBuffers, k \in {1, 3} :
       probe = [NoProbe EXCEPT !.buffer = b, !.stat = k]

\* getFileDate (lines 121-126) on the file with the buffer and the stat
\* result of the probe; readFails: readFile rejects in getExifDate
GetFileDate(readFails) ==
  /\ ~probe.done
  /\ LET exifDate == getExifDate(probe.buffer, readFails)
     IN probe' = [probe EXCEPT !.exif = exifDate,
                               !.date = resolveDate(exifDate, Meta(probe.stat)),
                               !.done = TRUE]
  /\ UNCHANGED <<fsFiles, fsDirs, files0, dirs0, dryRun, pc, visitedDirs, fileInfos,
                 operations, awaitingConfirm, executing, selectedIndex, overrides,
                 renameMode, renameInput, error, execIdx, sourceDirs, last, nEvents,
                 confirmed>>

NextExif == \E readFails \in BOOLEAN : GetFileDate(readFails)

ExifSpec == InitExif /\ [][NextExif]_vars

(***************************************************************************)
(* Properties.                                                             *)
(***************************************************************************)
planned == pc \notin {"Planning"} /\ ~error

isMove(k) == operations[k].type = "move"

isDeleteSource(p) ==
  \E k \in 1..Len(operations) : operations[k].type = "delete" /\ operations[k].source = p

\* fileInfos[k] is the first scanned file with its fingerprint
firstWithHash(k) == \A j \in 1..(k - 1) : fileInfos[j].hash # fileInfos[k].hash

hashIn(F, p) == getFileHash(F, p, Size(F[p].c))

\* C1: the plan of one planning pass holds no two Move operations with the
\* same target path.
C1_NoTwoMovesShareTarget ==
  \A i, j \in 1..Len(operations) :
    (i < j /\ isMove(i) /\ isMove(j)) => operations[i].target # operations[j].target

\* C2: executed with no overrides and no I/O error, every fingerprint of a
\* scanned file is still the fingerprint of some file under the root when
\* execution and pruning have finished.
C2_NoContentLost ==
  (pc = "Done" /\ DOMAIN overrides = {} /\ ~error) =>
    \A k \in 1..Len(fileInfos) :
      \E p \in DOMAIN fsFiles : IsPrefix(Root, p) /\ hashIn(fsFiles, p) = fileInfos[k].hash

\* the k-th candidate path of destination resolution for fileInfos[i]
candidateOf(i, k) ==
  join(targetDirOf(targetPath, fileInfos[i].date),
       candidateName(basename(fileInfos[i].path), k))

\* destination resolution meets an existing file with the fingerprint of
\* fileInfos[i] before it meets a free candidate name
destinationHoldsSame(i) ==
  \E k \in 0..Cardinality(DOMAIN files0) :
    /\ \A m \in 0..k : candidateOf(i, m) \in DOMAIN files0
    /\ hashIn(files0, candidateOf(i, k)) = fileInfos[i].hash

C5_RenameInputKeepsTheRun ==
  [][~(pc = "Review" /\ renameMode /\ pc' \in {"Executing", "Canceled"})]_vars

\* C6: an entry that carries an Ignore override when the run is confirmed
\* still has its source file, with its original content, when execution and
\* pruning have finished.
C6_IgnoredSourceKept ==
  pc = "Done" =>
    \A i \in DOMAIN overrides :
      (overrides[i].type = "ignore" /\ ~noOpAt(operations, i)) =>
        LET src == opAt(operations, i).source
        IN src \in DOMAIN fsFiles /\ fsFiles[src] = files0[src]

\* the execution loop is about to handle a planned Delete that carries a
\* Rename override
atRenamedDelete ==
  /\ pc = "Executing" /\ dryRun
  /\ execIdx < Len(operations)
  /\ opAt(operations, execIdx).type = "delete"
  /\ typeAt(overrides, execIdx) = "rename"

\* a rename is committed on a planned Delete
commitsOnDelete ==
  /\ pc = "Review" /\ renameMode /\ ~renameMode'
  /\ overrides' # overrides
  /\ ~noOpAt(operations, selectedIndex)
  /\ opAt(operations, selectedIndex).type = "delete"

\* C7: committing the typed name N on a planned Delete sets the override to
\* Rename with the path of N in the directory of the source, and the
\* execution of that entry moves the source file there, with its content,
\* and does not delete it.
C7_RenamedDeleteIsRenamedInPlace ==
  [][ /\ commitsOnDelete =>
           /\ typeAt(overrides', selectedIndex) = "rename"
           /\ overrides'[selectedIndex].newPath =
                join(dirname(opAt(operations, selectedIndex).source), renameInput)
      /\ (atRenamedDelete /\ execIdx' = execIdx + 1) =>
           LET src == opAt(operations, execIdx).source
               np == overrides[execIdx].newPath
           IN /\ dirname(np) = dirname(src)
              /\ np \in DOMAIN fsFiles'
              /\ fsFiles'[np] = fsFiles[src]
              /\ np # src => src \notin DOMAIN fsFiles'
    ]_vars

C7_Witness ==
  /\ pc = "Executing" /\ dryRun
  /\ \E i \in 0..(execIdx - 1) :
       /\ opAt(operations, i).type = "delete"
       /\ typeAt(overrides, i) = "rename"
       /\ overrides[i].newPath = join(dirname(opAt(operations, i).source), "k.jpg")
       /\ overrides[i].newPath \in DOMAIN fsFiles
       /\ opAt(operations, i).source \notin DOMAIN fsFiles

\* C8: the root directory is never removed by either pruning phase, for
\* every set of cleanup candidates.
C8_RootNeverRemoved == targetPath \in fsDirs

\* no file under dir, at any depth, has a name that is not ignorable
effectivelyEmpty(F, dir) ==
  \A p \in DOMAIN F : IsPrefix(dir, p) => isIgnorableFile(basename(p))

strictlyBelowRoot(d) == IsPrefix(targetPath, d) /\ d # targetPath

C8_Witness ==
  /\ pc = "Done"
  /\ {targetPath, Outside} \subseteq Range(sourceDirs)
  /\ effectivelyEmpty(files0, targetPath)
  /\ \E d \in dirs0 \ fsDirs : strictlyBelowRoot(d)

\* C9: when both pruning phases have finished, no directory strictly below
\* the root is effectively empty.
C9_NoEffectivelyEmptyDirectoryLeft ==
  pc = "Done" =>
    \A d \in fsDirs : strictlyBelowRoot(d) => ~effectivelyEmpty(fsFiles, d)

C9_Witness ==
  /\ pc = "Done"
  /\ \E p \in DOMAIN files0 :
       /\ isIgnorableFile(basename(p))
       /\ dirname(p) \notin fsDirs
       /\ dirname(dirname(p)) \notin fsDirs
  /\ \E d \in fsDirs : strictlyBelowRoot(d)

\* the overrides of every index but i are the same in ov1 and ov2
sameButAt(ov1, ov2, i) ==
  /\ (DOMAIN ov1) \ {i} = (DOMAIN ov2) \ {i}
  /\ \A j \in (DOMAIN ov1) \ {i} : ov1[j] = ov2[j]

\* this step is the second of two Ignore toggles, or of two Delete toggles,
\* in a row (the selection cannot move between them)
secondToggle == last.kind # "other" /\ last'.kind = last.kind

\* C10 as stated: two equal toggles in a row leave the selected index with
\* no override, whatever it carried before the first.
C10_TwoTogglesClear ==
  [][secondToggle => typeAt(overrides', selectedIndex) = "none"]_vars

\* C10 as amended: two equal toggles in a row leave the selected index with
\* no override when it did not carry that kind before the first toggle, and
\* with that kind when it did; every toggle leaves the selection and the
\* overrides of every other index unchanged.
C10_TwoTogglesRestore ==
  [][ /\ last'.kind # "other" =>
           /\ selectedIndex' = selectedIndex
           /\ sameButAt(overrides, overrides', selectedIndex)
      /\ secondToggle =>
           typeAt(overrides', selectedIndex) =
             (IF last.before = last.kind THEN last.kind ELSE "none")
    ]_vars

C10_Witness ==
  /\ pc = "Review"
  /\ last.kind = "ignore" /\ last.before = "ignore"
  /\ typeAt(overrides, selectedIndex) = "none"
  /\ \E j \in DOMAIN overrides : j # selectedIndex


\* the kinds of override
OverrideKinds == {"ignore", "delete", "rename"}

\* C11: every plan index carries at most one override, of one kind, and an
\* Ignore or Delete toggle on an index that carries an override of another
\* kind leaves the index with exactly the toggled kind.
C11_ToggleReplacesOtherKind ==
  [][ /\ \A i \in DOMAIN overrides' : overrides'[i].type \in OverrideKinds
      /\ (last'.kind # "other" /\ last'.before \notin {"none", last'.kind}) =>
           /\ typeAt(overrides', selectedIndex) = last'.kind
           /\ DOMAIN overrides' = DOMAIN overrides
    ]_vars

C11_Witness ==
  /\ pc = "Review"
  /\ last.kind = "delete" /\ last.before = "rename"
  /\ typeAt(overrides, selectedIndex) = "delete"

\* C12: while input is accepted the selected index is a position of the
\* plan, for every plan, the empty plan included.
C12_SelectedIndexInPlan ==
  (awaitingConfirm /\ ~executing) =>
    (0 <= selectedIndex /\ selectedIndex < Len(operations))

\* C13: every key of the override map is a position of the plan, for every
\* plan, the empty plan included.
C13_OverrideKeysInPlan ==
  \A i \in DOMAIN overrides : 0 <= i /\ i < Len(operations)

\* the execution loop has been entered
executionStarted == confirmed \/ (~dryRun /\ executing)

\* the execution loop is running, or a rejected call or the scan after it
\* has ended the run
inLoop == executionStarted /\ pc \in {"Executing", "Error"}

\* the action of index k leaves the source file where it is: the entry is
\* ignored or renamed to its own path
keepsSource(k) ==
  \/ typeAt(overrides, k) = "ignore"
  \/ (typeAt(overrides, k) = "rename" /\ overrides[k].newPath = operations[k + 1].source)

\* C14: the executor applies the operations in increasing plan index order,
\* one at a time, in the --execute path and in the confirm path: while the
\* loop is at index i, the sources of all entries before i have been handled
\* and the source of every entry from i on is still untouched.
C14_AppliedInPlanOrder ==
  inLoop =>
    /\ 0 <= execIdx /\ execIdx <= Len(operations)
    /\ \A k \in 0..(Len(operations) - 1) :
         LET src == operations[k + 1].source
         IN /\ k >= execIdx => (src \in DOMAIN fsFiles /\ fsFiles[src] = files0[src])
            /\ (k < execIdx /\ ~keepsSource(k)) => src \notin DOMAIN fsFiles

C14_Witness ==
  /\ pc = "Executing"
  /\ Len(operations) = 2 /\ execIdx = 1
  /\ operations[1].source \notin DOMAIN fsFiles
  /\ operations[2].source \in DOMAIN fsFiles

RECURSIVE appliedPrefix(_, _, _)
\* the file system after the actions of the plan indices 0..n-1, applied in
\* this order to [F, D]
appliedPrefix(F, D, n) ==
  IF n = 0 THEN [F |-> F, D |-> D]
  ELSE LET b == appliedPrefix(F, D, n - 1)
       IN IF dryRun THEN applyWithOverride(b.F, b.D, operations[n], overrides, n - 1)
          ELSE applyPlanned(b.F, b.D, operations[n])

\* a file system call of the action of index execIdx was rejected
execFailed == error /\ executionStarted /\ execIdx < Len(operations)

\* C15: when the action of index k fails, the run is in the error state, the
\* files are exactly what the actions of the indices before k left (no
\* action of a later index is performed, none is undone), and the sources
\* of all later entries are untouched.
C15_FailureStopsTheLoop ==
  execFailed =>
    LET done == appliedPrefix(files0, dirs0, execIdx)
    IN /\ pc = "Error"
       /\ fsFiles = done.F
       /\ done.D \subseteq fsDirs
       /\ \A k \in (execIdx + 1)..Len(operations) :
            /\ operations[k].source \in DOMAIN fsFiles
            /\ fsFiles[operations[k].source] = files0[operations[k].source]

C15_Witness ==
  /\ execFailed
  /\ Len(operations) = 2 /\ execIdx = 1
  /\ operations[1].source \notin DOMAIN fsFiles
  /\ operations[2].source \in DOMAIN fsFiles
  /\ fsFiles # files0

\* planning threw: the run failed before any execution loop was entered
planningFailed == error /\ ~executionStarted

\* C16: when scanning, stat, hashing or destination resolution fails during
\* planning, the run is in the error state, the file system is as it was
\* when the run started, in dry-run and in --execute mode, and no input
\* event is accepted, so none can start the execution.
C16_PlanningFailureHaltsTheRun ==
  planningFailed =>
    /\ pc = "Error"
    /\ fsFiles = files0 /\ fsDirs = dirs0
    /\ ~awaitingConfirm /\ ~executing
    /\ operations = <<>>

C16_Witness ==
  /\ planningFailed
  /\ ~dryRun
  /\ \E p \in DOMAIN fsFiles : IsMediaName(basename(p)) /\ ~isInOrganizedPath(targetPath, p)

\* C17: once every operation of the plan has been applied, an error of the
\* cleanup stage does not fail the run: the run never is in the error state
\* with the whole plan applied.
C17_CleanupNeverFailsTheRun ==
  (executionStarted /\ execIdx = Len(operations)) => (pc # "Error" /\ ~error)

\* the directory of a date, written out: root/<year>/<year>-<month>-<day>
dayDirectory(date) ==
  CASE date = [y |-> 2023, m |-> 6, d |-> 1] -> <<"r", "2023", "2023-06-01">>
    [] date = [y |-> 2023, m |-> 11, d |-> 20] -> <<"r", "2023", "2023-11-20">>
    [] date = [y |-> 2022, m |-> 1, d |-> 15] -> <<"r", "2022", "2022-01-15">>
    [] date = [y |-> 2024, m |-> 1, d |-> 5] -> <<"r", "2024", "2024-01-05">>
    [] date = [y |-> 1970, m |-> 1, d |-> 1] -> <<"r", "1970", "1970-01-01">>
    [] date = [y |-> 999, m |-> 6, d |-> 1] -> <<"r", "999", "999-06-01">>
    [] OTHER -> <<>>

\* the fileInfo of the source of operations[k]
infoOf(k) == CHOOSE j \in 1..Len(fileInfos) : fileInfos[j].path = operations[k].source

\* C18: every Move of the plan has as target directory root/<year>/
\* <year>-<month>-<day> of the resolved date of its source, month and day
\* written with two digits, and its target lies directly in that directory.
C18_MoveGoesToDayDirectory ==
  planned =>
    \A k \in 1..Len(operations) :
      isMove(k) =>
        /\ operations[k].targetDir = dayDirectory(fileInfos[infoOf(k)].date)
        /\ dirname(operations[k].target) = operations[k].targetDir
        /\ Len(operations[k].target) = Len(operations[k].targetDir) + 1

C18_Witness ==
  /\ planned
  /\ \E k \in 1..Len(operations) :
       /\ isMove(k)
       /\ operations[k].targetDir = <<"r", "2023", "2023-06-01">>
  /\ \E k \in 1..Len(operations) :
       /\ isMove(k)
       /\ operations[k].targetDir = <<"r", "2023", "2023-11-20">>

\* p is a media file below the root
mediaBelowRoot(p) == IsPrefix(targetPath, p) /\ IsMediaName(basename(p))

\* every media file of the tree F lies at the first candidate of its date
allAtFirstCandidate(F) ==
  \A p \in DOMAIN F :
    mediaBelowRoot(p) => p = join(dayDirectory(getFileDate(F, p)), basename(p))

\* C19: planning a tree in which every media file already lies at its
\* first-candidate destination gives the empty plan.
C19_OrganizedTreeGivesEmptyPlan ==
  (planned /\ allAtFirstCandidate(files0)) => operations = <<>>

\* the creation time of the stat result is usable
birthtimeAvailable(stats) == stats.birthtime # Epoch

\* C20: a scanned file with no recoverable capture date is dated by its
\* creation time when that is available and by its modification time
\* otherwise.
C20_FallsBackToModificationTime ==
  planned =>
    \A k \in 1..Len(fileInfos) :
      LET stats == Meta(files0[fileInfos[k].path].d)
      IN stats.exif = NoDate =>
           fileInfos[k].date =
             (IF birthtimeAvailable(stats) THEN stats.birthtime ELSE stats.mtime)

\* v is a calendar date
isCalendarDate(v) ==
  /\ DOMAIN v = {"y", "m", "d"}
  /\ v.m \in 1..12
  /\ v.d \in 1..daysInMonth(v.y, v.m - 1)

\* C21: for every buffer, metadata parsing gives a date or none and never
\* raises, and with none the file gets its date from the timestamps of stat.
C21_ParsingNeverRaises ==
  probe.done =>
    /\ probe.exif # Thrown
    /\ probe.exif = NoDate \/ isCalendarDate(probe.exif)
    /\ isCalendarDate(probe.date)
    /\ probe.exif = NoDate =>
         probe.date \in {Meta(probe.stat).birthtime, Meta(probe.stat).mtime}

C21_Witness ==
  /\ probe.done
  /\ parseExif(probe.buffer) = Thrown
  /\ Len(probe.buffer) > 40
  /\ probe.exif = NoDate
  /\ probe.date = Epoch

\* d is a directory of the initial tree that matches the organized-path
\* pattern and whose parent directory was scanned
organizedAtParentLevel(d) ==
  /\ d \in dirs0
  /\ isInOrganizedPath(targetPath, d)
  /\ dirname(d) \in Range(visitedDirs)

\* C22: a directory that matches the organized-path pattern and is met at the
\* parent level is not descended into, none of its files is in the file list,
\* and its path is in the visited-directory set.
C22_OrganizedDirectoryIsVisited ==
  planned =>
    \A d \in dirs0 :
      organizedAtParentLevel(d) =>
        /\ \A k \in 1..Len(fileInfos) : ~IsPrefix(d, fileInfos[k].path)
        /\ d \in Range(visitedDirs)

\* the names of the initial trees that carry a supported extension
SupportedNames == {"x.jpg", "x-1.jpg", "._x.jpg", "Y.MOV"}

\* p lies under a directory whose first two segments below the root are a
\* four-digit year and a YYYY-MM-DD day (of the directories of the initial
\* trees only 2023/2023-06-01 is one)
underOrganizedDirectory(p) == IsPrefix(DirDay, p)

\* the files the scanner has to list
expectedFiles ==
  { p \in DOMAIN files0 :
      /\ IsPrefix(Root, p)
      /\ basename(p) \in SupportedNames
      /\ ~underOrganizedDirectory(p) }

\* the directories the scanner descends into
descendedDirs ==
  { d \in dirs0 : IsPrefix(Root, d) /\ d # Root /\ ~underOrganizedDirectory(d) }

\* C23: the scanner's file list holds exactly the files under the root with a
\* supported extension, in any case, that do not lie under an organized
\* directory, each once, and the visited set holds the root and every
\* directory descended into.
C23_ScanListsExactlyTheMedia ==
  planned =>
    /\ { fileInfos[k].path : k \in 1..Len(fileInfos) } = expectedFiles
    /\ \A j, k \in 1..Len(fileInfos) : j # k => fileInfos[j].path # fileInfos[k].path
    /\ Root \in Range(visitedDirs)
    /\ descendedDirs \subseteq Range(visitedDirs)

C23_Witness ==
  /\ planned
  /\ join(Root, "Y.MOV") \in expectedFiles
  /\ join(DirDay, "x.jpg") \in DOMAIN files0
  /\ Len(fileInfos) = 1
  /\ DirA \in Range(visitedDirs)

\* the base name and the extension of the names of the initial trees, written
\* out
stemOf(name) ==
  CASE name = "x.jpg" -> "x"
    [] name = "x-1.jpg" -> "x-1"
    [] name = "._x.jpg" -> "._x"
    [] name = "Y.MOV" -> "Y"
    [] OTHER -> name

endingOf(name) ==
  CASE name \in {"x.jpg", "x-1.jpg", "._x.jpg"} -> ".jpg"
    [] name = "Y.MOV" -> ".MOV"
    [] OTHER -> ""

\* B+E, B-1+E, B-2+E, ... in the day directory of fileInfos[i]
expectedCandidate(i, k) ==
  LET name == basename(fileInfos[i].path)
  IN join(dayDirectory(fileInfos[i].date),
          IF k = 0 THEN stemOf(name) \o endingOf(name)
          ELSE stemOf(name) \o "-" \o ToString(k) \o endingOf(name))

\* destination resolution runs for fileInfos[i]: it is no duplicate of an
\* earlier file and does not already stand at its first candidate
resolved(i) == firstWithHash(i) /\ fileInfos[i].path # expectedCandidate(i, 0)

\* the candidates before the k-th exist with other content than fileInfos[i]
earlierDiffer(i, k) ==
  \A m \in 0..(k - 1) :
    /\ expectedCandidate(i, m) \in DOMAIN files0
    /\ hashIn(files0, expectedCandidate(i, m)) # fileInfos[i].hash

\* the plan holds for fileInfos[i] a Move to the k-th candidate, which does
\* not exist
movesTo(i, k) ==
  /\ expectedCandidate(i, k) \notin (DOMAIN files0) \cup dirs0
  /\ \E n \in 1..Len(operations) :
       /\ operations[n].source = fileInfos[i].path
       /\ isMove(n)
       /\ operations[n].target = expectedCandidate(i, k)

\* the plan holds for fileInfos[i] a Delete that cites the k-th candidate,
\* which exists with the content of fileInfos[i]
deletesFor(i, k) ==
  /\ expectedCandidate(i, k) \in DOMAIN files0
  /\ hashIn(files0, expectedCandidate(i, k)) = fileInfos[i].hash
  /\ \E n \in 1..Len(operations) :
       /\ operations[n].source = fileInfos[i].path
       /\ operations[n].type = "delete"
       /\ operations[n].reason = expectedCandidate(i, k)

\* the entries of directory dir in the initial tree
entriesOf(dir) ==
  { p \in DOMAIN files0 : dirname(p) = dir } \cup { d \in dirs0 : d # dir /\ dirname(d) = dir }

\* C24: destination resolution takes the candidates B+E, B-1+E, B-2+E, ... in
\* order and stops at the first that does not exist (Move to it) or exists with
\* the fingerprint of the source (Delete citing it); a Move target does not
\* exist at planning time and every candidate before the chosen one exists
\* with other content.
C24_FirstFreeOrSameCandidate ==
  planned =>
    \A i \in 1..Len(fileInfos) :
      resolved(i) =>
        \E k \in 0..Cardinality(DOMAIN files0) :
          /\ earlierDiffer(i, k)
          /\ movesTo(i, k) \/ deletesFor(i, k)

C24_Witness ==
  /\ planned
  /\ \E i \in 1..Len(fileInfos) :
       /\ resolved(i)
       /\ fileInfos[i].path = join(Root, "x.jpg")
       /\ join(DirDay, "x.jpg") \in DOMAIN files0
       /\ earlierDiffer(i, 1)
       /\ movesTo(i, 1)
       /\ expectedCandidate(i, 1) = join(DirDay, "x-1.jpg")

\* C25: destination resolution ends after at most (number of entries of the
\* target directory + 1) candidate checks: the candidate it chooses is the
\* k-th, counted from 0, for a k that is at most the number of entries.
C25_ResolutionEndsWithinEntries ==
  planned =>
    \A i \in 1..Len(fileInfos) :
      resolved(i) =>
        \E k \in 0..Cardinality(entriesOf(dayDirectory(fileInfos[i].date))) :
          movesTo(i, k) \/ deletesFor(i, k)

C25_Witness ==
  /\ planned
  /\ \E i \in 1..Len(fileInfos) :
       /\ resolved(i)
       /\ dayDirectory(fileInfos[i].date) = Dir999
       /\ Cardinality(entriesOf(Dir999)) = 1
       /\ movesTo(i, 1)

\* the first scanned file with the fingerprint of fileInfos[i]
firstOf(i) ==
  CHOOSE j \in 1..i :
    /\ fileInfos[j].hash = fileInfos[i].hash
    /\ \A m \in 1..(j - 1) : fileInfos[m].hash # fileInfos[i].hash

\* the entries of the plan with source p
entriesFor(p) == { n \in 1..Len(operations) : operations[n].source = p }

scanIndex(p) == CHOOSE j \in 1..Len(fileInfos) : fileInfos[j].path = p

\* C27: the plan is an order-preserving subsequence of the scan order with
\* pairwise distinct sources.
C27_PlanFollowsScanOrder ==
  planned =>
    /\ \A n \in 1..Len(operations) :
         \E j \in 1..Len(fileInfos) : fileInfos[j].path = operations[n].source
    /\ \A m, n \in 1..Len(operations) :
         m < n =>
           /\ operations[m].source # operations[n].source
           /\ scanIndex(operations[m].source) < scanIndex(operations[n].source)

C27_Witness ==
  /\ planned
  /\ Len(fileInfos) = 2
  /\ Len(operations) = 2
  /\ operations[1].type = "move"
  /\ operations[2].type = "delete"
  /\ operations[2].source = fileInfos[2].path

\* the files other than those of S are the same before and after the step
othersKept(S) ==
  /\ (DOMAIN fsFiles') \ S = (DOMAIN fsFiles) \ S
  /\ \A p \in (DOMAIN fsFiles) \ S : fsFiles'[p] = fsFiles[p]

\* the step removes the file src and nothing else
removes(src) ==
  /\ src \notin DOMAIN fsFiles'
  /\ othersKept({src})
  /\ fsDirs' = fsDirs

\* the step makes the directory dir, with its parents, and moves src to dst
movesInto(dir, src, dst) ==
  /\ dir \in fsDirs'
  /\ fsDirs \subseteq fsDirs'
  /\ fsDirs' \ fsDirs \subseteq Ancestors(dir)
  /\ dst \in DOMAIN fsFiles'
  /\ fsFiles'[dst] = fsFiles[src]
  /\ dst # src => src \notin DOMAIN fsFiles'
  /\ othersKept({src, dst})

\* C28: the executor's action at a plan index is a function of the entry and
\* its override: Ignore does nothing; Rename makes the parent directory of
\* new_path and moves the source to new_path whatever the entry's type; a
\* Delete override removes the source whatever the entry's type; with no
\* override a Delete entry removes the source and a Move entry makes the
\* target directory and moves the source to the target.
C28_ActionFollowsEntryAndOverride ==
  [][ (pc = "Executing" /\ execIdx < Len(operations) /\ execIdx' = execIdx + 1) =>
        LET op == opAt(operations, execIdx)
            kind == IF dryRun THEN typeAt(overrides, execIdx) ELSE "none"
        IN /\ kind = "ignore" => (fsFiles' = fsFiles /\ fsDirs' = fsDirs)
           /\ kind = "rename" =>
                movesInto(dirname(overrides[execIdx].newPath), op.source,
                          overrides[execIdx].newPath)
           /\ kind = "delete" => removes(op.source)
           /\ (kind = "none" /\ op.type = "delete") => removes(op.source)
           /\ (kind = "none" /\ op.type = "move") =>
                movesInto(op.targetDir, op.source, op.target)
    ]_vars

C28_Witness ==
  /\ pc = "Executing" /\ dryRun
  /\ \E i \in 0..(execIdx - 1) :
       /\ opAt(operations, i).type = "move"
       /\ typeAt(overrides, i) = "delete"
       /\ opAt(operations, i).source \notin DOMAIN fsFiles
       /\ opAt(operations, i).target \notin DOMAIN fsFiles
       /\ opAt(operations, i).targetDir \notin fsDirs

\* the review takes input events and is not typing a name
reviewing == pc = "Review" /\ awaitingConfirm /\ ~executing /\ ~renameMode

\* the review takes input events while a name is typed
renameInputState == pc = "Review" /\ awaitingConfirm /\ ~executing /\ renameMode

\* the base name shown for the selected entry, written out for the plans of
\* the initial trees: the last segment of the target of a Move, of the source
\* of a Delete
shownName ==
  LET op == opAt(operations, selectedIndex)
      p == IF op.type = "move" THEN op.target ELSE op.source
  IN p[Len(p)]

\* what a rename-toggle event has to do in Reviewing
renameToggleEffect ==
  IF typeAt(overrides, selectedIndex) = "rename"
  THEN /\ pc' = "Review" /\ ~renameMode'
       /\ overrides' = withoutOverride(overrides, selectedIndex)
  ELSE /\ pc' = "Review" /\ renameMode'
       /\ overrides' = overrides
       /\ ~noOpAt(operations, selectedIndex)
       /\ renameInput' = shownName

\* C29: a rename-toggle event in Reviewing removes a Rename override of the
\* selected index and stays in Reviewing; otherwise the state becomes
\* RenameInput, the override map is unchanged and the edit text is the base
\* name of the target of a planned Move, of the source of a planned Delete.
C29_RenameToggle ==
  reviewing => ~ENABLED (UseInput("r") /\ ~renameToggleEffect)

\* what Escape has to do in RenameInput
cancelRenameEffect ==
  /\ pc' = "Review" /\ ~renameMode'
  /\ awaitingConfirm' /\ ~executing'
  /\ overrides' = overrides
  /\ selectedIndex' = selectedIndex
  /\ operations' = operations

\* C30: Escape in RenameInput returns to Reviewing, leaves the override map,
\* the selected index and the plan unchanged, and does not cancel the run.
C30_EscapeLeavesRenameInput ==
  renameInputState => ~ENABLED (UseInput("escape") /\ ~cancelRenameEffect)

C30_Witness ==
  /\ reviewing
  /\ nEvents = 2
  /\ Len(operations) > 0
  /\ renameInput = shownName
  /\ DOMAIN overrides = {}

\* the directory a committed name is joined with: the planned target
\* directory of a Move, the directory that holds the source of a Delete
renameDirectory(op) ==
  IF op.type = "move" THEN op.targetDir ELSE SubSeq(op.source, 1, Len(op.source) - 1)

\* the directory joined with the typed name n
joinedWith(dir, n) == IF n = "" THEN dir ELSE dir \o <<n>>

\* what committing the typed name has to do in RenameInput
commitRenameEffect ==
  /\ pc' = "Review" /\ ~renameMode'
  /\ awaitingConfirm' /\ ~executing'
  /\ ~noOpAt(operations, selectedIndex)
  /\ DOMAIN overrides' = (DOMAIN overrides) \cup {selectedIndex}
  /\ overrides'[selectedIndex] =
       [type |-> "rename",
        newPath |-> joinedWith(renameDirectory(opAt(operations, selectedIndex)),
                               renameInput)]
  /\ \A j \in (DOMAIN overrides) \ {selectedIndex} : overrides'[j] = overrides[j]
  /\ selectedIndex' = selectedIndex

\* C31: committing a rename edit with typed name N sets the override of the
\* selected index to Rename with new_path the planned target directory joined
\* with N for a planned Move, the directory of the source joined with N for a
\* planned Delete; it replaces a previous override of that index, changes no
\* other index and returns to Reviewing.
C31_CommitSetsRenameOverride ==
  renameInputState => ~ENABLED (UseInput("return") /\ ~commitRenameEffect)

C31_Witness ==
  /\ reviewing
  /\ ~noOpAt(operations, selectedIndex)
  /\ opAt(operations, selectedIndex).type = "move"
  /\ typeAt(overrides, selectedIndex) = "rename"
  /\ overrides[selectedIndex].newPath = opAt(operations, selectedIndex).targetDir \o <<"k.jpg">>
  /\ dirname(opAt(operations, selectedIndex).source) # opAt(operations, selectedIndex).targetDir

\* the two override maps are the same at every index but i
sameExceptAt(ov1, ov2, i) ==
  /\ (DOMAIN ov1) \ {i} = (DOMAIN ov2) \ {i}
  /\ \A j \in (DOMAIN ov1) \ {i} : ov1[j] = ov2[j]

\* C32: while in RenameInput no event, navigation and toggle events included,
\* changes the selected index, and the override map changes only by the
\* commit, at the selected index: a committed rename applies to the index that
\* was selected when RenameInput was entered.
C32_RenameInputKeepsSelection ==
  [][ renameInputState =>
        /\ selectedIndex' = selectedIndex
        /\ renameMode' => overrides' = overrides
        /\ overrides' # overrides =>
             /\ sameExceptAt(overrides, overrides', selectedIndex)
             /\ typeAt(overrides', selectedIndex) = "rename"
    ]_vars

C32_Witness ==
  /\ renameInputState
  /\ Len(operations) = 2
  /\ selectedIndex = 0
  /\ nEvents >= 3
  /\ renameInput = shownName
  /\ DOMAIN overrides = {0}
  /\ typeAt(overrides, 0) = "ignore"

\* the step starts an execution
startsExecution == ~executing /\ executing'

\* C33: execution is started at most once per run, and before planning has
\* ended, during execution and after Confirm or Cancel no input event changes
\* the selected index or the override map or starts an execution.
C33_InputOnlyInReview ==
  [][ /\ startsExecution =>
           /\ pc \in {"Planning", "Review"}
           /\ ~confirmed
           /\ execIdx = 0
      /\ pc \notin {"Planning", "Review"} => pc' \notin {"Planning", "Review"}
      /\ (~awaitingConfirm \/ executing) =>
           /\ selectedIndex' = selectedIndex
           /\ overrides' = overrides
           /\ renameMode' = renameMode
           /\ renameInput' = renameInput
           /\ pc # "Planning" => ~startsExecution
    ]_vars

C33_Witness ==
  /\ pc = "Done"
  /\ confirmed
  /\ ~awaitingConfirm /\ ~executing
  /\ DOMAIN overrides # {}
  /\ execIdx = Len(operations)
  /\ Len(operations) > 0

\* the step is the first pruning phase, the second pruning phase
cleanupStep == pc = "Executing" /\ pc' = "Sweep"
sweepStep == pc = "Sweep" /\ pc' = "Done"

\* the directories the first phase is given, and what it does with them
processedByCleanup ==
  Range(cleanupCandidates(fsFiles, fsDirs, dryRun, sourceDirs, visitedDirs))

cleanupCalls ==
  cleanupEmptyDirectories(fsFiles, fsDirs,
    cleanupCandidates(fsFiles, fsDirs, dryRun, sourceDirs, visitedDirs), targetPath).tried

\* the directories the second phase collects, and what it does with them
processedBySweep == Range(walkStack(fsFiles, fsDirs, <<targetPath>>, <<>>))

sweepCalls == pruneAllEmptyDirs(fsFiles, fsDirs, targetPath).tried

\* directory d lies below directory e
liesBelow(d, e) == IsPrefix(e, d) /\ d # e

\* in the sequence of calls a directory is attempted only after every
\* directory of S below it has been attempted
childrenFirst(calls, S) ==
  \A n \in 1..Len(calls) :
    \A d \in S :
      liesBelow(d, calls[n].dir) => \E m \in 1..(n - 1) : calls[m].dir = d

\* in the sequence of calls a climb starts at a directory only after the
\* climb of every directory of S below it has started
startsChildrenFirst(calls, S) ==
  \A n \in 1..Len(calls) :
    calls[n].from = calls[n].dir =>
      \A d \in S :
        liesBelow(d, calls[n].dir) =>
          \E m \in 1..(n - 1) : calls[m].dir = d /\ calls[m].from = d

\* C34 as stated: in both pruning phases a directory is attempted only after
\* every one of its descendants in the processed set has been attempted.
C34_ChildrenBeforeParents ==
  [][ /\ cleanupStep => childrenFirst(cleanupCalls, processedByCleanup)
      /\ sweepStep => childrenFirst(sweepCalls, processedBySweep)
    ]_vars

\* C34, amended: the second phase attempts a directory only after every one
\* of its descendants in the processed set, and the first phase starts the
\* climb of a candidate only after the climbs of all the candidates below it.
C34_TurnsChildrenFirst ==
  [][ /\ cleanupStep => startsChildrenFirst(cleanupCalls, processedByCleanup)
      /\ sweepStep => childrenFirst(sweepCalls, processedBySweep)
    ]_vars

C34_Witness ==
  /\ pc = "Sweep"
  /\ {DirB, DirC} \subseteq Range(sourceDirs)
  /\ DirC \in dirs0
  /\ {DirA, DirB, DirC} \cap fsDirs = {}

\* the calls of the climb that started at directory c
callsFrom(calls, c) == { n \in 1..Len(calls) : calls[n].from = c }

\* C35: the climb from a cleanup candidate ends, after at most as many
\* attempts as the candidate lies levels below the root; it attempts only
\* directories strictly below the root, each the parent of the one before,
\* and none after a directory that was not pruned.
C35_ClimbStopsAtFirstKept ==
  [][ cleanupStep =>
        LET calls == cleanupCalls
        IN \A n \in 1..Len(calls) :
             /\ strictlyBelowRoot(calls[n].dir)
             /\ Cardinality(callsFrom(calls, calls[n].from)) <=
                  Len(calls[n].from) - Len(targetPath)
             /\ IF n > 1 /\ calls[n - 1].from = calls[n].from
                THEN /\ calls[n - 1].removed
                     /\ calls[n].dir = dirname(calls[n - 1].dir)
                ELSE calls[n].dir = calls[n].from
    ]_vars

C35_Witness ==
  /\ pc = "Sweep"
  /\ DirB \in Range(sourceDirs)
  /\ join(DirB, ".DS_Store") \in DOMAIN files0
  /\ join(DirA, "x.jpg") \in DOMAIN files0
  /\ DirB \notin fsDirs
  /\ DirA \in fsDirs

\* p is an entry that pruning has to keep: a file whose name is not
\* ignorable, or an entry that is neither file nor directory
toBeKept(F, p) == ~isIgnorableFile(p[Len(p)]) \/ F[p].c = 0

\* the files under the root whose name is not ignorable
nonIgnorableUnderRoot(F) ==
  { p \in DOMAIN F : IsPrefix(targetPath, p) /\ F[p].c # 0 /\ ~isIgnorableFile(p[Len(p)]) }

\* C36: pruning deletes no file whose name is not ignorable and removes no
\* directory that holds, at any depth, such a file or an entry that is neither
\* file nor directory: the non-ignorable files under the root are the same
\* before and after each pruning phase.
C36_PruningKeepsOtherFiles ==
  [][ (cleanupStep \/ sweepStep) =>
        /\ \A p \in DOMAIN fsFiles :
             toBeKept(fsFiles, p) =>
               /\ p \in DOMAIN fsFiles'
               /\ fsFiles'[p] = fsFiles[p]
               /\ \A k \in 0..(Len(p) - 1) : SubSeq(p, 1, k) \in fsDirs'
        /\ DOMAIN fsFiles' \subseteq DOMAIN fsFiles
        /\ fsDirs' \subseteq fsDirs
        /\ nonIgnorableUnderRoot(fsFiles') = nonIgnorableUnderRoot(fsFiles)
    ]_vars

C36_Witness ==
  /\ pc = "Done"
  /\ join(DirB, "._lnk") \in DOMAIN fsFiles
  /\ join(DirB, ".DS_Store") \in (DOMAIN files0) \ (DOMAIN fsFiles)
  /\ DirB \in Range(sourceDirs)

\* the path the executor moved the source of entry i to: the new_path of a
\* Rename override, the target of a Move with no override; <<>> when the
\* executor did not move it
movedTo(i) ==
  LET kind == IF dryRun THEN typeAt(overrides, i) ELSE "none"
  IN IF kind = "rename" THEN overrides[i].newPath
     ELSE IF kind = "none" /\ opAt(operations, i).type = "move"
          THEN opAt(operations, i).target
          ELSE <<>>

\* C37: every file the executor moved, by a planned Move or by a Rename
\* override, is at its destination path when both pruning phases have
\* finished, whatever its name.
C37_MovedFilesSurvivePruning ==
  (pc = "Done" /\ ~error) =>
    \A i \in 0..(Len(operations) - 1) :
      movedTo(i) # <<>> => movedTo(i) \in DOMAIN fsFiles

RECURSIVE runLoop(_, _, _, _, _)
\* the execution loop over ops from the file system [F, D], of the confirm
\* handler with an empty override map (review) or of organize(); src collects
\* the directories of the sources
runLoop(F, D, ops, src, review) ==
  IF ops = <<>> THEN [F |-> F, D |-> D, src |-> src, ok |-> TRUE]
  ELSE LET op == Head(ops)
           r == IF review THEN applyWithOverride(F, D, op, <<>>, 0)
                ELSE applyPlanned(F, D, op)
       IN IF r.ok
          THEN runLoop(r.F, r.D, Tail(ops), SetAdd(src, dirname(op.source)), review)
          ELSE [F |-> r.F, D |-> r.D, src |-> src, ok |-> FALSE]

\* the file system a whole run leaves from the initial file system [F, D]: in
\* review mode with Confirm at once (review), or with the execute flag
runFrom(F, D, review) ==
  LET scan == findMediaFiles(F, D, targetPath, targetPath)
      infos == readMetadata(F, scan.files, <<>>, <<>>)
      ops == planOperations(F, D, targetPath, infos)
      l == runLoop(F, D, ops, <<>>, review)
      c == cleanupEmptyDirectories(l.F, l.D,
             cleanupCandidates(l.F, l.D, review, l.src, scan.dirSet), targetPath)
      p == pruneAllEmptyDirs(c.F, c.D, targetPath)
  IN [F |-> p.F, D |-> p.D, ok |-> l.ok]

\* C38: a run with the execute flag and a run in review mode with Confirm and
\* an empty override map end, from the same initial file system, with the same
\* file system: the file system a finished run of one kind leaves is the one
\* the other kind leaves from its initial file system.
C38_ExecuteEqualsConfirm ==
  (pc = "Done" /\ ~error /\ DOMAIN overrides = {}) =>
    LET other == runFrom(files0, dirs0, ~dryRun)
    IN /\ other.ok
       /\ other.F = fsFiles
       /\ other.D = fsDirs

C38_Witness ==
  /\ pc = "Done" /\ ~error
  /\ dryRun /\ confirmed
  /\ DOMAIN overrides = {}
  /\ Len(operations) = 2
  /\ DirYear \in fsDirs \ dirs0
  /\ DirYear \notin Range(visitedDirs)
  /\ DirB \in dirs0 \ fsDirs

\* the 16-bit big-endian number at offset o of buffer b (offsets from 0)
wordAt(b, o) == b[o + 1] * 256 + b[o + 2]

RECURSIVE wellFormedFrom(_, _)
\* from offset o to its end buffer b is a sequence of marker segments: FF, a
\* marker byte, a length that counts itself, and length - 2 bytes
wellFormedFrom(b, o) ==
  \/ o = Len(b)
  \/ /\ o + 4 <= Len(b)
     /\ b[o + 1] = 255
     /\ wordAt(b, o + 2) >= 2
     /\ o + 2 + wordAt(b, o + 2) <= Len(b)
     /\ wellFormedFrom(b, o + 2 + wordAt(b, o + 2))

\* the segment at offset o is an APP1 segment that starts with "Exif\0\0"
exifSegmentAt(b, o) ==
  /\ wordAt(b, o) = 65505
  /\ wordAt(b, o + 2) >= 8
  /\ SubSeq(b, o + 5, o + 10) = <<69, 120, 105, 102, 0, 0>>

RECURSIVE afterSignature(_, _)
\* the offset right after the signature of the first Exif segment of a
\* well-formed buffer from offset o, -1 when it has none
afterSignature(b, o) ==
  IF o = Len(b) THEN -1
  ELSE IF exifSegmentAt(b, o) THEN o + 10
       ELSE afterSignature(b, o + 2 + wordAt(b, o + 2))

\* b is a JPEG buffer of well-formed segments, one of them an Exif segment
jpegWithExif(b) ==
  /\ Len(b) >= 2 /\ b[1] = 255 /\ b[2] = 216
  /\ wellFormedFrom(b, 2)
  /\ afterSignature(b, 2) # -1

\* C39: on a JPEG buffer of well-formed marker segments with an Exif segment
\* the segment scan ends with the TIFF structure placed right after the Exif
\* signature, whatever segments come before it.
C39_ScanStopsAfterSignature ==
  (probe.done /\ jpegWithExif(probe.buffer)) =>
    scanSegments(probe.buffer, 2) = afterSignature(probe.buffer, 2)

====
